---- MODULE Spec2Model ----
(***************************************************************************)
(* Model of the incremental TMDB ingestion engine                          *)
(* (scripts/fetch_TMDB_API/fetch_API_TMDB.py and the fetchers built on it).*)
(*                                                                         *)
(*   Spec      one fetcher process after another on one store: scan,     *)
(*             target selection, copy to the temp file, the thread pool    *)
(*             and the scheduler loop of TMDBFetcher.run, the swap and     *)
(*             the summary log; SIGKILL at any point.                      *)
(*   SpecReq   one call of tmdb_request with its clock: attempts, waits, *)
(*             backoff and error counters.                                 *)
(*   SpecScan  scan_existing_ndjson on bounded files, dates and windows, *)
(*             the status-keyed scan of the TV series fetcher and the      *)
(*             air_date scans of the TV season and episode fetchers.       *)
(*   SpecSched one run of TMDBFetcher.run with more targets than the       *)
(*             admission window holds.                                     *)
(*   SpecLim   pool threads calling RateLimiter.acquire on one limiter.  *)
(*   SpecRebuild  a full-rebuild fetcher run twice on the same upstream. *)
(*   SpecProviders  one run of MovieWatchProvidersFetcher (several rows  *)
(*             per movie).                                                 *)
(*   SpecLive  TMDBFetcher.run without SIGKILL, under weak fairness.       *)
(*   SpecWindow  windowed fetchers whose projection drops date_field.      *)
(*   SpecProject  the projections of the reviews, release-dates, credits   *)
(*             and countries fetchers on bounded payloads.                 *)
(*   SpecReviews  one run of MovieReviewsFetcher with its requests.        *)
(*   SpecCred  the construction of a fetcher from a .env file.             *)
(*   SpecLocal  one run on a store holding unusable lines.                 *)
(*   SpecMerge  the two merge scripts on bounded files, run twice.         *)
(*   SpecCount  ErrorCounter and ProgressTracker called by several threads.*)
(*   SpecSingle  the single-call reference fetchers (countries,            *)
(*             languages, certifications), run after run.                  *)
(*   SpecEpisodes  one run of TVEpisodeDetailsFetcher: season listings,    *)
(*             target discovery, copy, episode calls, swap.                *)
(*   SpecPipeline  run_all_scripts.py: the scripts of EXECUTION_ORDER      *)
(*             launched one after another.                                 *)
(***************************************************************************)
EXTENDS Integers, Sequences, FiniteSets, TLC

VARIABLES
    \* ---- Spec: the store and one run of TMDBFetcher.run ----
    cfg,            \* the fetcher class that owns the store ("-" before its first run)
    store,          \* content of output_path: a sequence of lines, or Absent
    tmp,            \* content of tmp_path: a sequence of lines, or Absent
    pc,             \* position of the main thread
    pre,            \* store content when the current run started
    ids,            \* candidate ids read from the input file
    existing_ids, refresh_ids, kept_lines,
    targets,        \* deduplicated work list
    it,             \* number of targets already handed to the executor
    copied_existing,
    fut,            \* per key: state of its future
    attempts,       \* per key: attempts of its tmdb_request while it runs
    queue,          \* executor work queue (submitted, not yet picked), FIFO
    done,           \* the set returned by wait() still to be processed
    progress,       \* ProgressTracker._state
    errors,         \* ErrorCounter._counter
    counted,        \* per key: error_counter.inc calls made for its request
    added, updated, ok,
    log,            \* summary lines appended by the current run
    obs,            \* observer: 401 seen, requests and dispatches after it, swap done
    \* ---- SpecReq: one tmdb_request ----
    rq,
    \* ---- SpecScan: one scan of an existing store ----
    sc,
    \* ---- SpecLim: one RateLimiter shared by the pool threads ----
    rl,
    \* ---- SpecRebuild: a full-rebuild fetcher run twice ----
    rb,
    \* ---- SpecProviders: one run of the watch-providers fetcher ----
    wp,
    \* ---- SpecProject: one call of a projection ----
    pj,
    \* ---- SpecReviews: one run of MovieReviewsFetcher ----
    rv,
    \* ---- SpecCred: the construction of a fetcher and the start of its run ----
    cr,
    \* ---- SpecLocal: the scan and the copy on the raw lines of a store ----
    lc,
    \* ---- SpecMerge: a dump merged twice into the cumulative file ----
    mg,
    \* ---- SpecCount: the shared counters under concurrent calls ----
    ct,
    \* ---- SpecSingle: runs of a single-call full-rebuild fetcher ----
    sg,
    \* ---- SpecEpisodes: one run of TVEpisodeDetailsFetcher ----
    ep,
    \* ---- SpecPipeline: one execution of run_all_scripts ----
    pl

vars == <<cfg, store, tmp, pc, pre, ids, existing_ids, refresh_ids, kept_lines,
          targets, it, copied_existing, fut, attempts, queue, done, progress,
          errors, counted, added, updated, ok, log, obs, rq, sc, rl, rb, wp, pj, rv, cr, lc, mg, ct, sg, ep, pl>>

runVars == <<cfg, store, tmp, pc, pre, ids, existing_ids, refresh_ids, kept_lines,
             targets, it, copied_existing, fut, attempts, queue, done, progress,
             errors, counted, added, updated, ok, log, obs>>

(***************************************************************************)
(* Bounds of the model                                                     *)
(***************************************************************************)
\* identity keys are 1..NumKeys
NumKeys == 2
\* worker threads of the pool (64 in the source, scaled down)
MAX_WORKERS == 1
\* lines without an integer id that the store may come to hold (a fetcher
\* whose records the scan does not recognise grows the store on every run)
MaxKeyless == 3
\* targets beyond the admission window in the runs of SpecSched
ExtraTargets == 1

Keys == 1..NumKeys
\* Python None where an integer id is expected
NoId == 0
\* a path that does not exist, and a file with its lines
Absent == [ex |-> FALSE, lines |-> <<>>]
File(ls) == [ex |-> TRUE, lines |-> ls]

(***************************************************************************)
(* Program constants                                                       *)
(***************************************************************************)
MAX_IN_FLIGHT == MAX_WORKERS * 4
\* the keys a future may be created for
PoolKeys == Keys \cup (1..(MAX_IN_FLIGHT + ExtraTargets))
MAX_RETRIES_PER_ID == 6
\* MAX_BACKOFF_SECONDS = 60.0, in milliseconds
MAX_BACKOFF_MS == 60000
\* backoff = 0.2, in milliseconds
BASE_BACKOFF_MS == 200
\* window_days of the fetchers that refresh by date
WINDOW_DAYS == 30

(***************************************************************************)
(* Dates: datetime.strptime(s, "%Y-%m-%d").date(), date - timedelta(days)  *)
(* and date comparison, through the proleptic Gregorian ordinal.           *)
(* A JSON value found under date_field is                                  *)
(*   kind "none"  null or absent        kind "num"   a number              *)
(*   kind "junk"  a string not of the form Y-M-D (the empty one included)  *)
(*   kind "str"   the string "y-m-d" (which may name no real day)          *)
(***************************************************************************)
DNone == [kind |-> "none", y |-> 0, m |-> 0, d |-> 0]
DNum  == [kind |-> "num",  y |-> 0, m |-> 0, d |-> 0]
DJunk == [kind |-> "junk", y |-> 0, m |-> 0, d |-> 0]
DStr(yy, mm, dd) == [kind |-> "str", y |-> yy, m |-> mm, d |-> dd]

IsLeap(y) == (y % 4 = 0 /\ y % 100 # 0) \/ (y % 400 = 0)

DaysInMonth(y, m) ==
    IF m = 2 THEN (IF IsLeap(y) THEN 29 ELSE 28)
    ELSE IF m \in {4, 6, 9, 11} THEN 30 ELSE 31

RECURSIVE DaysBeforeMonth(_, _)
DaysBeforeMonth(y, m) ==
    IF m <= 1 THEN 0 ELSE DaysBeforeMonth(y, m - 1) + DaysInMonth(y, m - 1)

DaysBeforeYear(y) ==
    LET p == y - 1 IN p * 365 + (p \div 4) - (p \div 100) + (p \div 400)

\* date.toordinal()
ToOrdinal(dt) == DaysBeforeYear(dt.y) + DaysBeforeMonth(dt.y, dt.m) + dt.d

\* parse_date_safe: TRUE iff it returns a date (not None)
ParsesAsDate(v) ==
    /\ v.kind = "str"
    /\ v.y >= 1 /\ v.y <= 9999
    /\ v.m \in 1..12
    /\ v.d >= 1 /\ v.d <= DaysInMonth(v.y, v.m)

(***************************************************************************)
(* Lines of a store. A line written by a fetcher is the projection of the  *)
(* payload: id is the integer found under id_field (NoId when the object   *)
(* has none), cid the integer found under "content_id", date the value     *)
(* under date_field. fresh marks the lines written by the current run.     *)
(***************************************************************************)
Line(i, c, dv, f) == [id |-> i, cid |-> c, date |-> dv, fresh |-> f]

\* window_days = None
NoWindow == -1

\* the mutant of InRefreshWindow: the lower end of the window made exclusive
InRefreshWindowExclusive(dv, today, window_days) ==
    /\ ParsesAsDate(dv)
    /\ ToOrdinal(today) - window_days < ToOrdinal(dv)
    /\ ToOrdinal(dv) <= ToOrdinal(today)

\* dt is not None and cutoff <= dt <= today
InRefreshWindow(dv, today, window_days) ==
    /\ ParsesAsDate(dv)
    /\ ToOrdinal(today) - window_days <= ToOrdinal(dv)
    /\ ToOrdinal(dv) <= ToOrdinal(today)

(***************************************************************************)
(* The set of integers refresh_ids as CPython keeps it: an open-addressing *)
(* table of 8 slots (32 once a fifth key is added), a key k hashed to      *)
(* itself, first tried in slot k mod size, then in up to 9 following slots *)
(* where the table is long enough, then at (5 i + 1 + perturb) mod size.   *)
(* The unused slots hold -1. `for mid in refresh_ids` visits the slots in  *)
(* increasing order.                                                       *)
(***************************************************************************)
EmptyTable(size) == [j \in 0..(size - 1) |-> -1]

SetMask(table) == Cardinality(DOMAIN table) - 1

SetKeys(table) == {table[j] : j \in DOMAIN table} \ {-1}

RECURSIVE SetProbe(_, _, _, _)
SetProbe(table, mask, i, perturb) ==
    LET probes == IF i + 9 <= mask THEN 9 ELSE 0
        free   == {j \in i..(i + probes) : table[j] < 0}
    IN IF free # {} THEN CHOOSE j \in free : \A m \in free : j <= m
       ELSE SetProbe(table, mask,
                     (i * 5 + 1 + (perturb \div 32)) % (mask + 1), perturb \div 32)

SetInsert(table, x) ==
    [table EXCEPT ![SetProbe(table, SetMask(table), x % (SetMask(table) + 1), x)] = x]

RECURSIVE SetIterFrom(_, _)
SetIterFrom(table, j) ==
    IF j > SetMask(table) THEN <<>>
    ELSE (IF table[j] < 0 THEN <<>> ELSE <<table[j]>>) \o SetIterFrom(table, j + 1)

\* the order in which a for loop visits the set
SetIter(table) == SetIterFrom(table, 0)

RECURSIVE SetNewSize(_, _)
SetNewSize(size, minused) ==
    IF size > minused THEN size ELSE SetNewSize(size * 2, minused)

RECURSIVE SetInsertAll(_, _, _)
SetInsertAll(table, q, i) ==
    IF i > Len(q) THEN table ELSE SetInsertAll(SetInsert(table, q[i]), q, i + 1)

\* set.add: the table is rebuilt, four times the number of keys wide, once
\* it is three fifths full
SetAdd(table, x) ==
    IF x \in SetKeys(table) THEN table
    ELSE LET t    == SetInsert(table, x)
             fill == Cardinality(SetKeys(t))
         IN IF fill * 5 < SetMask(t) * 3 THEN t
            ELSE SetInsertAll(EmptyTable(SetNewSize(8, fill * 4)), SetIter(t), 1)

\* scan_existing_ndjson: (all_ids, refresh_ids, kept_lines); refresh_table is
\* refresh_ids with the order of its keys
RECURSIVE ScanFrom(_, _, _, _, _)
ScanFrom(file, i, today, window_days, acc) ==
    IF i > Len(file) THEN acc
    ELSE LET ln == file[i] IN
         IF ln.id = NoId
         THEN ScanFrom(file, i + 1, today, window_days, acc)
         ELSE ScanFrom(file, i + 1, today, window_days,
                [all_ids |-> acc.all_ids \cup {ln.id},
                 refresh_ids |->
                    IF window_days # NoWindow
                       /\ InRefreshWindow(ln.date, today, window_days)
                    THEN acc.refresh_ids \cup {ln.id}
                    ELSE acc.refresh_ids,
                 refresh_table |->
                    IF window_days # NoWindow
                       /\ InRefreshWindow(ln.date, today, window_days)
                    THEN SetAdd(acc.refresh_table, ln.id)
                    ELSE acc.refresh_table,
                 kept_lines |-> acc.kept_lines + 1])

ScanExisting(file, today, window_days) ==
    IF ~file.ex
    THEN [all_ids |-> {}, refresh_ids |-> {}, refresh_table |-> EmptyTable(8),
          kept_lines |-> 0]
    ELSE ScanFrom(file.lines, 1, today, window_days,
                  [all_ids |-> {}, refresh_ids |-> {}, refresh_table |-> EmptyTable(8),
                   kept_lines |-> 0])

(***************************************************************************)
(* tmdb_request: what one response does to the request.                    *)
(* A response is "200" (a JSON body), an HTTPError "404", "401", "429" or  *)
(* "500" (any other status), a "URLError", or another "Exception" raised   *)
(* inside the try (a timeout while reading, an undecodable body).          *)
(***************************************************************************)
Responses == {"200", "404", "401", "429", "500", "URLError", "Exception"}
Categories == {"404", "HTTP_500", "HTTP_429_exceeded_retries", "URLError", "Exception"}

Ret(a, c) == [act |-> a, cat |-> c]

\* the mutant of Classify: a 404 is retried like a transient failure
ClassifyRetry404(resp, att) ==
    CASE resp = "200" -> Ret("data", "-")
      [] resp = "404" -> IF att < MAX_RETRIES_PER_ID THEN Ret("retry", "-")
                         ELSE Ret("none", "404")
      [] resp = "401" -> Ret("exit", "-")
      [] resp = "429" -> IF att < MAX_RETRIES_PER_ID THEN Ret("retry", "-")
                         ELSE Ret("none", "HTTP_429_exceeded_retries")
      [] resp = "500" -> Ret("none", "HTTP_500")
      [] resp = "URLError" -> IF att < MAX_RETRIES_PER_ID THEN Ret("retry", "-")
                              ELSE Ret("none", "URLError")
      [] OTHER -> IF att < MAX_RETRIES_PER_ID THEN Ret("retry", "-")
                  ELSE Ret("none", "Exception")

\* the mutant of Classify: the attempt budget is tested with <=
ClassifyOneMore(resp, att) ==
    CASE resp = "200" -> Ret("data", "-")
      [] resp = "404" -> Ret("none", "404")
      [] resp = "401" -> Ret("exit", "-")
      [] resp = "429" -> IF att <= MAX_RETRIES_PER_ID THEN Ret("retry", "-")
                         ELSE Ret("none", "HTTP_429_exceeded_retries")
      [] resp = "500" -> Ret("none", "HTTP_500")
      [] resp = "URLError" -> IF att <= MAX_RETRIES_PER_ID THEN Ret("retry", "-")
                              ELSE Ret("none", "URLError")
      [] OTHER -> IF att <= MAX_RETRIES_PER_ID THEN Ret("retry", "-")
                  ELSE Ret("none", "Exception")

\* the mutant of Classify: a 401 is counted like any other HTTP error status
ClassifyNoExit(resp, att) ==
    CASE resp = "200" -> Ret("data", "-")
      [] resp = "404" -> Ret("none", "404")
      [] resp = "401" -> Ret("none", "HTTP_500")
      [] resp = "429" -> IF att < MAX_RETRIES_PER_ID THEN Ret("retry", "-")
                         ELSE Ret("none", "HTTP_429_exceeded_retries")
      [] resp = "500" -> Ret("none", "HTTP_500")
      [] resp = "URLError" -> IF att < MAX_RETRIES_PER_ID THEN Ret("retry", "-")
                              ELSE Ret("none", "URLError")
      [] OTHER -> IF att < MAX_RETRIES_PER_ID THEN Ret("retry", "-")
                  ELSE Ret("none", "Exception")

\* the branches of the while loop, att being attempts after attempts += 1:
\* "data" returns the body, "none" counts cat once and returns None,
\* "retry" continues the loop, "exit" is sys.exit(1)
Classify(resp, att) ==
    CASE resp = "200" -> Ret("data", "-")
      [] resp = "404" -> Ret("none", "404")
      [] resp = "401" -> Ret("exit", "-")
      [] resp = "429" -> IF att < MAX_RETRIES_PER_ID THEN Ret("retry", "-")
                         ELSE Ret("none", "HTTP_429_exceeded_retries")
      [] resp = "500" -> Ret("none", "HTTP_500")
      [] resp = "URLError" -> IF att < MAX_RETRIES_PER_ID THEN Ret("retry", "-")
                              ELSE Ret("none", "URLError")
      [] OTHER -> IF att < MAX_RETRIES_PER_ID THEN Ret("retry", "-")
                  ELSE Ret("none", "Exception")

Min(a, b) == IF a <= b THEN a ELSE b

ZeroCounter == [c \in Categories |-> 0]
Inc(cnt, c) == [cnt EXCEPT ![c] = @ + 1]

RECURSIVE SumOver(_, _)
SumOver(f, S) ==
    IF S = {} THEN 0
    ELSE LET x == CHOOSE e \in S : TRUE IN f[x] + SumOver(f, S \ {x})

\* ErrorCounter.total
Total(cnt) == SumOver(cnt, DOMAIN cnt)

\* The Retry-After header of a 429: absent, a text float() rejects (an HTTP
\* date), or a number of seconds.
HAbsent == [kind |-> "absent", s |-> 0]
HText   == [kind |-> "text", s |-> 0]
HSecs(n) == [kind |-> "secs", s |-> n]

\* the mutant of WaitMs: the Retry-After header is not read
WaitMsNoHint(hint, backoff) == backoff

\* wait_s of the 429 branch, in milliseconds: float(retry_after) when there
\* is a header and it parses, else backoff
WaitMs(hint, backoff) ==
    IF hint.kind = "secs" THEN hint.s * 1000 ELSE backoff

(***************************************************************************)
(* The fetchers. "TMDBFetcher" is the base class run with a date window    *)
(* (project_fields returns the payload as it is); "TVSeriesDetailsFetcher" *)
(* overrides project_fields and writes the payload's id as content_id.     *)
(* A 200 to GET /<entity>/<id> carries an object whose id is the requested *)
(* one, whose date_field is one of UpDates and whose list field is a list  *)
(* or null, or it carries the JSON value null, which json.loads returns as *)
(* None.                                                                   *)
(***************************************************************************)
Configs == {"TMDBFetcher", "TVSeriesDetailsFetcher"}
Today == DStr(2024, 3, 1)
UpDates == {DStr(2024, 2, 15), DStr(2023, 6, 1)}
Payload(k, dv) == [id |-> k, date |-> dv]

UpObject(dv) == [kind |-> "object", date |-> dv, results |-> "list"]
UpOdd(dv) == [kind |-> "object", date |-> dv, results |-> "null"]
UpNull == [kind |-> "null", date |-> DNone, results |-> "-"]
\* the bodies of the runs of Spec
UpBodies == {UpObject(dv) : dv \in UpDates} \cup {UpNull}
\* the Retry-After headers of the runs of Spec
UpHints == {HAbsent, HSecs(-1)}

\* project_fields raises: MovieReviewsFetcher iterates data.get("results", [])
\* and raises TypeError when the body holds null under "results"
ProjectRaises(c, results) == c = "MovieReviewsFetcher" /\ results = "null"

Window(c) == WINDOW_DAYS

\* project_fields
Project(c, data) ==
    IF c = "TVSeriesDetailsFetcher"
    THEN Line(NoId, data.id, data.date, TRUE)
    ELSE IF c \in {"MovieCreditsFetcher", "TVSeriesContentRatingsFetcher",
                   "MovieReviewsFetcher"}
    THEN \* {"id", "cast", "crew"}, {"id", "content_ratings"},
         \* {"id", "reviews"}: no date_field
         Line(data.id, NoId, DNone, TRUE)
    ELSE Line(data.id, NoId, data.date, TRUE)

RECURSIVE SortedSeq(_)
SortedSeq(S) ==
    IF S = {} THEN <<>>
    ELSE LET lo == CHOOSE x \in S : \A y \in S : x <= y
         IN <<lo>> \o SortedSeq(S \ {lo})

InSeq(x, q) == \E i \in 1..Len(q) : q[i] = x

RECURSIVE Dedup(_, _, _)
Dedup(q, i, acc) ==
    IF i > Len(q) THEN acc
    ELSE Dedup(q, i + 1, IF InSeq(q[i], acc) THEN acc ELSE Append(acc, q[i]))

RECURSIVE AppendMissing(_, _, _)
AppendMissing(tg, rs, i) ==
    IF i > Len(rs) THEN [targets |-> tg, n |-> 0]
    ELSE IF InSeq(rs[i], tg)
         THEN AppendMissing(tg, rs, i + 1)
         ELSE LET r == AppendMissing(Append(tg, rs[i]), rs, i + 1)
              IN [targets |-> r.targets, n |-> r.n + 1]

\* a mutant of BuildTargets: the refresh-due keys are left out
BuildTargetsNewOnly(idseq, existing, refresh, window_days) ==
    LET NotExisting(m) == m \notin existing
        new == SelectSeq(idseq, NotExisting)
    IN [targets |-> new, will_add |-> Len(new), will_update |-> 0]

\* steps 3 of run: new ids in input order, then the refresh ids in the
\* order of their set (refresh is its table), then the deduplication
BuildTargets(idseq, existing, refresh, window_days) ==
    LET NotExisting(m) == m \notin existing
        new == SelectSeq(idseq, NotExisting)
        r   == IF window_days # NoWindow
               THEN AppendMissing(new, SetIter(refresh), 1)
               ELSE [targets |-> new, n |-> 0]
    IN [targets |-> Dedup(r.targets, 1, <<>>),
        will_add |-> Len(new), will_update |-> r.n]

\* a mutant of CopyLines: the retained lines are written in reverse order
CopyLinesReversed(lines, targets_set) ==
    LET Retained(ln) == ~(ln.id # NoId /\ ln.id \in targets_set)
        kept == SelectSeq(lines, Retained)
    IN [i \in 1..Len(kept) |-> kept[Len(kept) + 1 - i]]

\* a mutant of CopyLines: no line of the store is copied
CopyLinesNone(lines, targets_set) == <<>>

\* a mutant of CopyLines: the lines of the targets are copied as well
CopyLinesAll(lines, targets_set) == lines

\* step 4 of run: the lines whose integer id is not a target
CopyLines(lines, targets_set) ==
    LET Retained(ln) == ~(ln.id # NoId /\ ln.id \in targets_set)
    IN SelectSeq(lines, Retained)

Range(q) == {q[i] : i \in 1..Len(q)}

FutNew == [st |-> "new", res |-> "-", cat |-> "-", date |-> DNone, results |-> "-"]
ProgressInit == [processed |-> 0, ok |-> 0, total |-> 0, added |-> 0,
                 updated |-> 0, errors |-> 0]
ObsInit == [seen401 |-> FALSE, reqAfter401 |-> FALSE, dispAfter401 |-> FALSE,
            swapped |-> FALSE, after_kill |-> FALSE, before |-> Absent]

RqIdle == [st |-> "idle"]
ScIdle == [st |-> "idle"]
RlIdle == [st |-> "idle"]
RbIdle == [st |-> "idle"]
WpIdle == [st |-> "idle"]
PjIdle == [st |-> "idle"]
RvIdle == [st |-> "idle"]
CrIdle == [st |-> "idle"]
LcIdle == [st |-> "idle"]
MgIdle == [st |-> "idle"]
CtIdle == [st |-> "idle"]
SgIdle == [st |-> "idle"]
EpIdle == [st |-> "idle"]
PlIdle == [st |-> "idle"]

\* the memory of a process that has not started its run
FreshProcess ==
    /\ ids' = <<>>
    /\ existing_ids' = {} /\ refresh_ids' = {} /\ kept_lines' = 0
    /\ targets' = <<>> /\ it' = 0 /\ copied_existing' = 0
    /\ fut' = [k \in PoolKeys |-> FutNew]
    /\ attempts' = [k \in PoolKeys |-> 0]
    /\ queue' = <<>> /\ done' = {}
    /\ progress' = ProgressInit
    /\ errors' = ZeroCounter
    /\ counted' = [k \in PoolKeys |-> 0]
    /\ added' = 0 /\ updated' = 0 /\ ok' = 0
    /\ log' = <<>>

Init ==
    /\ cfg = "-"
    /\ store = Absent /\ tmp = Absent /\ pre = Absent
    /\ pc = "idle"
    /\ ids = <<>>
    /\ existing_ids = {} /\ refresh_ids = {} /\ kept_lines = 0
    /\ targets = <<>> /\ it = 0 /\ copied_existing = 0
    /\ fut = [k \in PoolKeys |-> FutNew]
    /\ attempts = [k \in PoolKeys |-> 0]
    /\ queue = <<>> /\ done = {}
    /\ progress = ProgressInit
    /\ errors = ZeroCounter
    /\ counted = [k \in PoolKeys |-> 0]
    /\ added = 0 /\ updated = 0 /\ ok = 0
    /\ log = <<>>
    /\ obs = ObsInit
    /\ rq = RqIdle
    /\ sc = ScIdle
    /\ rl = RlIdle
    /\ rb = RbIdle
    /\ wp = WpIdle
    /\ pj = PjIdle
    /\ rv = RvIdle
    /\ cr = CrIdle
    /\ lc = LcIdle
    /\ mg = MgIdle
    /\ ct = CtIdle
    /\ sg = SgIdle
    /\ ep = EpIdle
    /\ pl = PlIdle

\* the input files, as iter_ndjson_ids yields them: lists of distinct ids,
\* the empty one included
IdLists ==
    {q \in UNION {[1..n -> Keys] : n \in 0..NumKeys} :
        \A i, j \in 1..Len(q) : i # j => q[i] # q[j]}

Unmark(f) ==
    IF f.ex
    THEN File([i \in 1..Len(f.lines) |-> [f.lines[i] EXCEPT !.fresh = FALSE]])
    ELSE f

\* no process runs: none has started, or the last one has returned from
\* run ("done"), was killed, left by sys.exit(1) on an empty input
\* ("noinput") or on a 401 ("aborted"), or died of an exception ("crashed")
Stopped == pc \in {"idle", "done", "killed", "aborted", "noinput", "crashed"}
\* the pool exists and its threads run; "drain" and "unwind": the main
\* thread has left the loop on SystemExit, resp. on another exception, and
\* waits in ThreadPoolExecutor.__exit__
Alive == pc \in {"prime", "wait", "process", "drain", "unwind"}

\* the runs explored: the store never comes to hold more than MaxKeyless lines
\* without an integer id
WithinKeyless(idseq) ==
    Cardinality({i \in 1..Len(store.lines) : store.lines[i].id = NoId})
        + Len(idseq) <= MaxKeyless

\* A fetcher process starts: steps 1 to 3 of run (read the ids, scan the
\* store, choose the targets, set the progress estimates). When the input
\* file yields no id, run leaves by sys.exit(1) before the scan.
StartRun(c, idseq) ==
    /\ Stopped
    /\ cfg \in {"-", c}
    /\ cfg' = c
    /\ LET st0  == Unmark(store)
           scan == ScanExisting(st0, Today, Window(c))
           tg   == BuildTargets(idseq, scan.all_ids, scan.refresh_table, Window(c))
       IN /\ store' = st0
          /\ pre' = st0
          /\ ids' = idseq
          /\ IF idseq = <<>>
             THEN /\ existing_ids' = {} /\ refresh_ids' = {} /\ kept_lines' = 0
                  /\ targets' = <<>>
                  /\ progress' = ProgressInit
                  /\ pc' = "noinput"
             ELSE /\ existing_ids' = scan.all_ids
                  /\ refresh_ids' = scan.refresh_ids
                  /\ kept_lines' = scan.kept_lines
                  /\ targets' = tg.targets
                  /\ progress' = [ProgressInit EXCEPT !.total = Len(tg.targets),
                                                      !.added = tg.will_add,
                                                      !.updated = tg.will_update]
                  /\ pc' = IF Len(tg.targets) = 0 THEN "noop_move" ELSE "copy"
    /\ it' = 0 /\ copied_existing' = 0
    /\ fut' = [k \in PoolKeys |-> FutNew]
    /\ attempts' = [k \in PoolKeys |-> 0]
    /\ queue' = <<>> /\ done' = {}
    /\ errors' = ZeroCounter
    /\ counted' = [k \in PoolKeys |-> 0]
    /\ added' = 0 /\ updated' = 0 /\ ok' = 0
    /\ log' = <<>>
    \* the observer remembers, for a run that follows a killed one, the store
    \* the killed run was entitled to leave: its post-run content when it
    \* had renamed the temp file, else its pre-run content
    /\ obs' = [ObsInit EXCEPT
                 !.after_kill = (pc = "killed"),
                 !.before = IF pc = "killed"
                            THEN (IF obs.swapped THEN Unmark(store) ELSE pre)
                            ELSE Absent]
    /\ UNCHANGED <<tmp, rq, sc, rl, rb, wp, pj, rv, cr, lc, mg, ct, sg, ep, pl>>

\* no target: output_path.replace(tmp_path) ...
NoopMoveAway ==
    /\ pc = "noop_move"
    /\ IF store.ex
       THEN /\ tmp' = store /\ store' = Absent /\ pc' = "noop_back"
       ELSE /\ UNCHANGED <<tmp, store>> /\ pc' = "noop_log"
    /\ UNCHANGED <<cfg, pre, ids, existing_ids, refresh_ids, kept_lines, targets, it,
                   copied_existing, fut, attempts, queue, done, progress, errors,
                   counted, added, updated, ok, log, obs, rq, sc, rl, rb, wp, pj, rv, cr, lc, mg, ct, sg, ep, pl>>

\* a mutant of NoopMoveBack: the store is not renamed back
NoopMoveBackSkipped ==
    /\ pc = "noop_back"
    /\ pc' = "noop_log"
    /\ UNCHANGED <<cfg, store, tmp, pre, ids, existing_ids, refresh_ids, kept_lines,
                   targets, it, copied_existing, fut, attempts, queue, done, progress,
                   errors, counted, added, updated, ok, log, obs, rq, sc, rl, rb, wp,
                   pj, rv, cr, lc, mg, ct, sg, ep, pl>>

\* ... tmp_path.replace(output_path)
NoopMoveBack ==
    /\ pc = "noop_back"
    /\ store' = tmp /\ tmp' = Absent
    /\ pc' = "noop_log"
    /\ UNCHANGED <<cfg, pre, ids, existing_ids, refresh_ids, kept_lines, targets, it,
                   copied_existing, fut, attempts, queue, done, progress, errors,
                   counted, added, updated, ok, log, obs, rq, sc, rl, rb, wp, pj, rv, cr, lc, mg, ct, sg, ep, pl>>

Summary(a, u, t, e) == [added |-> a, updated |-> u, total |-> t, errors |-> e]

\* no target: append_summary_log(0, 0, kept_lines) and return
NoopLog ==
    /\ pc = "noop_log"
    /\ log' = Append(log, Summary(0, 0, kept_lines, errors))
    /\ pc' = "done"
    /\ UNCHANGED <<cfg, store, tmp, pre, ids, existing_ids, refresh_ids, kept_lines,
                   targets, it, copied_existing, fut, attempts, queue, done, progress,
                   errors, counted, added, updated, ok, obs, rq, sc, rl, rb, wp, pj, rv, cr, lc, mg, ct, sg, ep, pl>>

\* step 4: the temp file is opened "w" (or written empty when there is no
\* store)
CopyOpen ==
    /\ pc = "copy"
    /\ tmp' = File(<<>>)
    /\ pc' = "copying"
    /\ UNCHANGED <<cfg, store, pre, ids, existing_ids, refresh_ids, kept_lines, targets,
                   it, copied_existing, fut, attempts, queue, done, progress, errors,
                   counted, added, updated, ok, log, obs, rq, sc, rl, rb, wp, pj, rv, cr, lc, mg, ct, sg, ep, pl>>

\* step 4: the temp file receives the retained lines and is closed
CopyExisting ==
    /\ pc = "copying"
    /\ LET kept == IF store.ex THEN CopyLines(store.lines, Range(targets)) ELSE <<>>
       IN /\ tmp' = File(kept)
          /\ copied_existing' = Len(kept)
    /\ pc' = "prime"
    /\ UNCHANGED <<cfg, store, pre, ids, existing_ids, refresh_ids, kept_lines, targets,
                   it, fut, attempts, queue, done, progress, errors, counted, added,
                   updated, ok, log, obs, rq, sc, rl, rb, wp, pj, rv, cr, lc, mg, ct, sg, ep, pl>>

\* a mutant of NextTarget: the iterator does not advance past a target
NextTargetAgain(tg, i) == tg[IF i = 0 THEN 1 ELSE i]

\* a mutant of PrimeCount: every target is submitted at once
PrimeCountAll(total) == total

\* range(min(MAX_IN_FLIGHT, total_to_process))
PrimeCount(total) == Min(MAX_IN_FLIGHT, total)

\* next(it): the first target not yet handed to the executor
NextTarget(tg, i) == tg[i + 1]

\* step 5, priming: one turn of the loop over range(min(MAX_IN_FLIGHT,
\* total)) submits one target; the pool threads run meanwhile
Prime ==
    /\ pc = "prime"
    /\ LET n   == PrimeCount(Len(targets))
           nxt == NextTarget(targets, it)
       IN IF it < n
          THEN /\ queue' = Append(queue, nxt)
               /\ fut' = [fut EXCEPT ![nxt].st = "queued"]
               /\ it' = it + 1
               /\ obs' = [obs EXCEPT !.dispAfter401 = @ \/ obs.seen401]
               /\ pc' = IF it + 1 < n THEN "prime" ELSE "wait"
          ELSE /\ UNCHANGED <<queue, fut, it, obs>>
               /\ pc' = "wait"
    /\ UNCHANGED <<cfg, store, tmp, pre, ids, existing_ids, refresh_ids, kept_lines,
                   targets, copied_existing, attempts, done, progress, errors, counted,
                   added, updated, ok, log, rq, sc, rl, rb, wp, pj, rv, cr, lc, mg, ct, sg, ep, pl>>

\* the futures a pool thread is working on ("returning": its request has
\* counted its error and tmdb_request has not returned yet)
Running == {k \in PoolKeys : fut[k].st \in {"running", "returning"}}

\* a free pool thread takes the oldest submitted work item
WorkerPick ==
    /\ Alive
    /\ queue # <<>>
    /\ Cardinality(Running) < MAX_WORKERS
    /\ fut' = [fut EXCEPT ![Head(queue)].st = "running"]
    /\ queue' = Tail(queue)
    /\ UNCHANGED <<cfg, store, tmp, pc, pre, ids, existing_ids, refresh_ids, kept_lines,
                   targets, it, copied_existing, attempts, done, progress, errors,
                   counted, added, updated, ok, log, obs, rq, sc, rl, rb, wp, pj, rv, cr, lc, mg, ct, sg, ep, pl>>

\* one turn of the while loop of tmdb_request in a pool thread: the request
\* is issued and its response handled, up to error_counter.inc when the
\* call gives up. A 200 returns json.loads of the body, None when the body
\* is null, without a count. In the 429 branch
\* time.sleep(min(wait_s, MAX_BACKOFF_SECONDS)) raises ValueError on a
\* negative wait_s: the exception leaves tmdb_request and the worker and is
\* stored in the future.
WorkerAttempt(k, resp, hint, body) ==
    /\ Alive
    /\ fut[k].st = "running"
    /\ LET att    == attempts[k] + 1
           r      == Classify(resp, att)
           raised == resp = "429" /\ WaitMs(hint, BASE_BACKOFF_MS) < 0
           gaveUp == ~raised /\ r.act = "none"
       IN \* attempts is a local of the call: it is gone when the call returns
          /\ attempts' = [attempts EXCEPT ![k] =
                            IF ~raised /\ r.act = "retry" THEN att ELSE 0]
          /\ fut' = [fut EXCEPT ![k] =
                IF raised
                THEN [FutNew EXCEPT !.st = "finished", !.res = "raised"]
                ELSE CASE r.act = "data" ->
                            IF body.kind = "null"
                            THEN [FutNew EXCEPT !.st = "finished", !.res = "none"]
                            ELSE [st |-> "finished", res |-> "data", cat |-> "-",
                                  date |-> body.date, results |-> body.results]
                       [] r.act = "none" ->
                            [FutNew EXCEPT !.st = "returning", !.res = "none",
                                           !.cat = r.cat]
                       [] r.act = "exit" ->
                            [FutNew EXCEPT !.st = "finished", !.res = "exit"]
                       [] OTHER -> @]
          /\ errors' = IF gaveUp THEN Inc(errors, r.cat) ELSE errors
          /\ counted' = IF gaveUp THEN [counted EXCEPT ![k] = @ + 1]
                        ELSE counted
    /\ obs' = [obs EXCEPT !.reqAfter401 = @ \/ obs.seen401,
                          !.seen401 = @ \/ (resp = "401")]
    /\ UNCHANGED <<cfg, store, tmp, pc, pre, ids, existing_ids, refresh_ids, kept_lines,
                   targets, it, copied_existing, queue, done, progress, added, updated,
                   ok, log, rq, sc, rl, rb, wp, pj, rv, cr, lc, mg, ct, sg, ep, pl>>

\* tmdb_request returns None after error_counter.inc: the future completes
WorkerReturn(k) ==
    /\ Alive
    /\ fut[k].st = "returning"
    /\ fut' = [fut EXCEPT ![k].st = "finished"]
    /\ UNCHANGED <<cfg, store, tmp, pc, pre, ids, existing_ids, refresh_ids, kept_lines,
                   targets, it, copied_existing, attempts, queue, done, progress, errors,
                   counted, added, updated, ok, log, obs, rq, sc, rl, rb, wp, pj, rv, cr, lc, mg, ct, sg, ep, pl>>

Finished == {k \in PoolKeys : fut[k].st = "finished"}
Outstanding ==
    {k \in PoolKeys : fut[k].st \in {"queued", "running", "returning", "finished"}}

\* wait(futures, FIRST_COMPLETED) returns the futures that are done
MainWait ==
    /\ pc = "wait"
    /\ Finished # {}
    /\ done' = Finished
    /\ pc' = "process"
    /\ UNCHANGED <<cfg, store, tmp, pre, ids, existing_ids, refresh_ids, kept_lines,
                   targets, it, copied_existing, fut, attempts, queue, progress, errors,
                   counted, added, updated, ok, log, obs, rq, sc, rl, rb, wp, pj, rv, cr, lc, mg, ct, sg, ep, pl>>


\* the body of "for fut in done" for one future
ProcessOne(k) ==
    /\ pc = "process"
    /\ k \in done
    /\ IF fut[k].res \in {"exit", "raised"}
       THEN \* fut.result() raises the SystemExit or the ValueError of the
            \* worker: the with block is left and
            \* ThreadPoolExecutor.__exit__ waits for the submitted work
            /\ pc' = IF fut[k].res = "exit" THEN "drain" ELSE "unwind"
            /\ fut' = [fut EXCEPT ![k].st = "processed"]
            /\ done' = {}
            /\ UNCHANGED <<tmp, progress, added, updated, ok, queue, it, obs>>
       ELSE IF fut[k].res = "data" /\ ProjectRaises(cfg, fut[k].results)
       THEN \* progress.inc("processed"), then project_fields raises
            /\ pc' = "unwind"
            /\ progress' = [progress EXCEPT !.processed = @ + 1]
            /\ fut' = [fut EXCEPT ![k].st = "processed"]
            /\ done' = {}
            /\ UNCHANGED <<tmp, added, updated, ok, queue, it, obs>>
       ELSE LET isData == fut[k].res = "data"
                upd    == isData /\ k \in existing_ids
                add    == isData /\ k \notin existing_ids
                more   == it < Len(targets)
                nxt    == NextTarget(targets, it)
            IN /\ tmp' = IF isData
                         THEN File(Append(tmp.lines, Project(cfg, Payload(k, fut[k].date))))
                         ELSE tmp
               /\ ok' = IF isData THEN ok + 1 ELSE ok
               /\ updated' = IF upd THEN updated + 1 ELSE updated
               /\ added' = IF add THEN added + 1 ELSE added
               /\ progress' = [progress EXCEPT
                     !.processed = @ + 1,
                     !.ok = IF isData THEN ok + 1 ELSE @,
                     !.updated = IF upd THEN updated + 1 ELSE @,
                     !.added = IF add THEN added + 1 ELSE @,
                     !.errors = Total(errors)]
               /\ fut' = [j \in PoolKeys |->
                     IF j = k THEN [fut[j] EXCEPT !.st = "processed"]
                     ELSE IF more /\ j = nxt THEN [fut[j] EXCEPT !.st = "queued"]
                     ELSE fut[j]]
               /\ queue' = IF more THEN Append(queue, nxt) ELSE queue
               /\ it' = IF more THEN it + 1 ELSE it
               /\ obs' = [obs EXCEPT !.dispAfter401 = @ \/ (more /\ obs.seen401)]
               /\ done' = done \ {k}
               /\ pc' = IF done \ {k} = {} THEN "wait" ELSE "process"
    /\ UNCHANGED <<cfg, store, pre, ids, existing_ids, refresh_ids, kept_lines, targets,
                   copied_existing, attempts, errors, counted, log, rq, sc, rl, rb, wp, pj, rv, cr, lc, mg, ct, sg, ep, pl>>

\* a mutant of NoFutures: the loop ends as soon as no request is running
NoFuturesRunning == Running = {}

\* "while futures" is false: no submitted future is left to process
NoFutures == Outstanding = {}

\* "while futures" ends: every submitted future has been processed
LoopExit ==
    /\ pc = "wait"
    /\ NoFutures
    /\ pc' = "swap"
    /\ UNCHANGED <<cfg, store, tmp, pre, ids, existing_ids, refresh_ids, kept_lines,
                   targets, it, copied_existing, fut, attempts, queue, done, progress,
                   errors, counted, added, updated, ok, log, obs, rq, sc, rl, rb, wp, pj, rv, cr, lc, mg, ct, sg, ep, pl>>

\* after SystemExit or another exception: shutdown(wait=True) has returned,
\* the exception leaves run and the process exits 1
DrainExit ==
    /\ pc \in {"drain", "unwind"}
    /\ queue = <<>> /\ Running = {}
    /\ pc' = IF pc = "drain" THEN "aborted" ELSE "crashed"
    /\ UNCHANGED <<cfg, store, tmp, pre, ids, existing_ids, refresh_ids, kept_lines,
                   targets, it, copied_existing, fut, attempts, queue, done, progress,
                   errors, counted, added, updated, ok, log, obs, rq, sc, rl, rb, wp, pj, rv, cr, lc, mg, ct, sg, ep, pl>>

\* step 6: tmp_path.replace(output_path)
Swap ==
    /\ pc = "swap"
    /\ store' = tmp /\ tmp' = Absent
    /\ obs' = [obs EXCEPT !.swapped = TRUE]
    /\ pc' = "log"
    /\ UNCHANGED <<cfg, pre, ids, existing_ids, refresh_ids, kept_lines, targets, it,
                   copied_existing, fut, attempts, queue, done, progress, errors,
                   counted, added, updated, ok, log, rq, sc, rl, rb, wp, pj, rv, cr, lc, mg, ct, sg, ep, pl>>

\* the mutant of TotalLines: the scan's count is used for the retained lines
TotalLinesFromScan(copied, kept, okc) == kept + okc

\* step 7: total_lines = copied_existing + ok
TotalLines(copied, kept, okc) == copied + okc

\* step 8: append_summary_log
AppendLog ==
    /\ pc = "log"
    /\ log' = Append(log, Summary(added, updated,
                                  TotalLines(copied_existing, kept_lines, ok), errors))
    /\ pc' = "done"
    /\ UNCHANGED <<cfg, store, tmp, pre, ids, existing_ids, refresh_ids, kept_lines,
                   targets, it, copied_existing, fut, attempts, queue, done, progress,
                   errors, counted, added, updated, ok, obs, rq, sc, rl, rb, wp, pj, rv, cr, lc, mg, ct, sg, ep, pl>>

\* the beginning of a line, cut where the buffer was last flushed: it
\* decodes as no JSON value
Fragment == Line(NoId, NoId, DJunk, TRUE)

\* the files that hold the first n of lines, n from lo on, the last of
\* them whole or, when a line follows, followed by a fragment of it
Flushed(lines, lo) ==
    {File(SubSeq(lines, 1, n)) : n \in lo..Len(lines)}
    \cup {File(Append(SubSeq(lines, 1, n), Fragment)) : n \in lo..(Len(lines) - 1)}

\* What the temp file holds on disk when the process dies. tmp is the file
\* as the process wrote it; what is written through an open file object
\* stays in its buffer until it is flushed or closed, and a flush may cut a
\* line: during the copy any beginning of the retained lines is on disk,
\* during the scheduler loop the copied lines and any beginning of the
\* lines appended since.
TmpOnDisk ==
    IF pc = "copying"
    THEN LET kept == IF store.ex THEN CopyLines(store.lines, Range(targets)) ELSE <<>>
         IN Flushed(kept, 0)
    ELSE IF pc \in {"prime", "wait", "process"}
    THEN Flushed(tmp.lines, copied_existing)
    ELSE {tmp}

\* the process is killed (SIGKILL, power loss): its memory is gone, the
\* files stay as they are on disk
Kill ==
    /\ ~Stopped
    /\ pc' = "killed"
    /\ FreshProcess
    /\ obs' = [ObsInit EXCEPT !.swapped = obs.swapped]
    /\ \E t \in TmpOnDisk : tmp' = t
    /\ UNCHANGED <<cfg, store, pre, rq, sc, rl, rb, wp, pj, rv, cr, lc, mg, ct, sg, ep, pl>>

RunNext ==
    \/ \E c \in Configs, q \in IdLists : WithinKeyless(q) /\ StartRun(c, q)
    \/ NoopMoveAway
    \/ NoopMoveBack
    \/ NoopLog
    \/ CopyOpen
    \/ CopyExisting
    \/ Prime
    \/ WorkerPick
    \/ \E k \in Keys, resp \in Responses, hint \in UpHints, body \in UpBodies :
          /\ (resp # "429" => hint = HAbsent)
          /\ (resp # "200" => body = UpNull)
          /\ WorkerAttempt(k, resp, hint, body)
    \/ \E k \in Keys : WorkerReturn(k)
    \/ MainWait
    \/ \E k \in Keys : ProcessOne(k)
    \/ LoopExit
    \/ DrainExit
    \/ Swap
    \/ AppendLog
    \/ Kill

Spec == Init /\ [][RunNext]_vars

(***************************************************************************)
(* SpecLive: a fetcher run again and again on one store, no request being  *)
(* answered 401 and the process not being killed: the base class, or       *)
(* MovieReviewsFetcher, whose project_fields reads the list under          *)
(* "results". Every network call returns and the threads of the process    *)
(* keep being scheduled: a step that can be taken is taken. A fetched      *)
(* record carries LiveDate, a day outside the refresh window, so that      *)
(* later runs find nothing to do.                                          *)
(***************************************************************************)
LiveConfigs == {"TMDBFetcher", "MovieReviewsFetcher"}
LiveResponses == Responses \ {"401"}
LiveDate == DStr(2023, 6, 1)
LiveBodies == {UpObject(LiveDate), UpOdd(LiveDate), UpNull}

LiveNext ==
    \/ \E c \in LiveConfigs, q \in IdLists : StartRun(c, q)
    \/ NoopMoveAway
    \/ NoopMoveBack
    \/ NoopLog
    \/ CopyOpen
    \/ CopyExisting
    \/ Prime
    \/ WorkerPick
    \/ \E k \in Keys, resp \in LiveResponses, hint \in UpHints, body \in LiveBodies :
          /\ (resp # "429" => hint = HAbsent)
          /\ (resp # "200" => body = UpNull)
          /\ WorkerAttempt(k, resp, hint, body)
    \/ \E k \in Keys : WorkerReturn(k)
    \/ MainWait
    \/ \E k \in Keys : ProcessOne(k)
    \/ LoopExit
    \/ DrainExit
    \/ Swap
    \/ AppendLog

SpecLive == Init /\ [][LiveNext]_vars /\ WF_vars(LiveNext)

(***************************************************************************)
(* SpecWindow: fetchers configured with window_days = 30 and a date_field, *)
(* run again and again on one store, the process not being killed and no   *)
(* request answered 401. MovieCreditsFetcher and                           *)
(* TVSeriesContentRatingsFetcher override project_fields; the base class   *)
(* stands for a fetcher that persists the payload as it is. The upstream   *)
(* date of an entity is one of UpDates: 2024-02-15 lies within the window  *)
(* on Today, 2023-06-01 does not.                                          *)
(***************************************************************************)
WindowConfigs == {"TMDBFetcher", "MovieCreditsFetcher", "TVSeriesContentRatingsFetcher"}
WindowResponses == {"200", "404"}

WindowNext ==
    \/ \E c \in WindowConfigs, q \in IdLists : StartRun(c, q)
    \/ NoopMoveAway
    \/ NoopMoveBack
    \/ NoopLog
    \/ CopyOpen
    \/ CopyExisting
    \/ Prime
    \/ WorkerPick
    \/ \E k \in Keys, resp \in WindowResponses, dv \in UpDates :
          /\ (resp # "200" => dv = CHOOSE x \in UpDates : TRUE)
          /\ WorkerAttempt(k, resp, HAbsent, UpObject(dv))
    \/ \E k \in Keys : WorkerReturn(k)
    \/ MainWait
    \/ \E k \in Keys : ProcessOne(k)
    \/ LoopExit
    \/ Swap
    \/ AppendLog

SpecWindow == Init /\ [][WindowNext]_vars

(***************************************************************************)
(* SpecSched: one run of the base fetcher on an absent store, its input    *)
(* file holding more ids than the admission window admits.                 *)
(***************************************************************************)
SchedIds == [i \in 1..(MAX_IN_FLIGHT + ExtraTargets) |-> i]
SchedResponses == {"200", "404", "429", "401"}
SchedDate == DStr(2024, 2, 15)

SchedNext ==
    \/ pc = "idle" /\ StartRun("TMDBFetcher", SchedIds)
    \/ CopyOpen
    \/ CopyExisting
    \/ Prime
    \/ WorkerPick
    \/ \E k \in PoolKeys, resp \in SchedResponses :
          WorkerAttempt(k, resp, HAbsent, UpObject(SchedDate))
    \/ \E k \in PoolKeys : WorkerReturn(k)
    \/ MainWait
    \/ \E k \in PoolKeys : ProcessOne(k)
    \/ LoopExit
    \/ DrainExit
    \/ Swap
    \/ AppendLog

SpecSched == Init /\ [][SchedNext]_vars

(***************************************************************************)
(* SpecReq: one call of tmdb_request, with the time it spends.             *)
(* Times are in milliseconds.                                              *)
(***************************************************************************)
Hints == {HAbsent, HText} \cup {HSecs(n) : n \in {-1, 0, 2, 60, 120}}

\* 1.5 + random.random() * 0.5, in tenths
Jitter == {15, 19}
\* time limiter.acquire() may hold the caller
AcquireDelays == {0, 20}

\* a mutant of NextBackoff: the delay is multiplied by ten, without a ceiling
NextBackoffTenfold(backoff, jit) == backoff * 10

\* min(MAX_BACKOFF_SECONDS, backoff * (1.5 + random.random() * 0.5))
NextBackoff(backoff, jit) == Min(MAX_BACKOFF_MS, (backoff * jit) \div 10)

RqStart == [st |-> "run", attempts |-> 0, backoff |-> BASE_BACKOFF_MS, calls |-> 0,
            sleep |-> 0, hint |-> HAbsent, gap |-> 0, prevHint |-> HAbsent,
            first |-> "-", last |-> "-", cnt |-> ZeroCounter]

ReqStart ==
    /\ rq.st = "idle"
    /\ rq' = RqStart
    /\ UNCHANGED <<runVars, sc, rl, rb, wp, pj, rv, cr, lc, mg, ct, sg, ep, pl>>

\* one turn of the while loop: attempts += 1, limiter.acquire(), urlopen,
\* and the branch taken on the response; "data" is the return of
\* json.loads of a 200 body, whatever the value
ReqAttempt(resp, hint, jit, delay) ==
    /\ rq.st = "run"
    /\ LET att  == rq.attempts + 1
           r    == Classify(resp, att)
           base == [rq EXCEPT !.attempts = att,
                              !.calls = @ + 1,
                              !.gap = rq.sleep + delay,
                              !.prevHint = rq.hint,
                              !.first = IF rq.first = "-" THEN resp ELSE @,
                              !.last = resp,
                              !.hint = HAbsent,
                              !.sleep = 0]
           w    == WaitMs(hint, rq.backoff)
       IN rq' =
            CASE resp = "429" ->
                    IF w < 0
                    THEN \* time.sleep(negative) raises ValueError in the handler
                         [base EXCEPT !.st = "raised"]
                    ELSE [base EXCEPT
                            !.sleep = Min(w, MAX_BACKOFF_MS),
                            !.hint = hint,
                            !.backoff = NextBackoff(rq.backoff, jit),
                            !.st = IF r.act = "retry" THEN "run" ELSE "none",
                            !.cnt = IF r.act = "retry" THEN @ ELSE Inc(@, r.cat)]
              [] resp \in {"URLError", "Exception"} ->
                    IF r.act = "retry"
                    THEN [base EXCEPT
                            !.sleep = Min(rq.backoff, MAX_BACKOFF_MS),
                            !.backoff = NextBackoff(rq.backoff, jit)]
                    ELSE [base EXCEPT !.st = "none", !.cnt = Inc(@, r.cat)]
              [] OTHER ->
                    CASE r.act = "data" -> [base EXCEPT !.st = "data"]
                      [] r.act = "exit" -> [base EXCEPT !.st = "exit"]
                      [] r.act = "none" -> [base EXCEPT !.st = "none",
                                                        !.cnt = Inc(@, r.cat)]
                      [] OTHER -> base
    /\ UNCHANGED <<runVars, sc, rl, rb, wp, pj, rv, cr, lc, mg, ct, sg, ep, pl>>

ReqNext ==
    \/ ReqStart
    \/ \E resp \in Responses, hint \in Hints, jit \in Jitter, delay \in AcquireDelays :
          /\ (resp # "429" => hint = HAbsent)
          /\ ReqAttempt(resp, hint, jit, delay)

SpecReq == Init /\ [][ReqNext]_vars

(***************************************************************************)
(* SpecScan: scan_existing_ndjson on a file of one or two lines.           *)
(***************************************************************************)
ScanYears == {2023, 2024}
ScanMonths == {1, 2, 3, 11, 12}
ScanDates ==
    {DNone, DNum, DJunk, DStr(2024, 13, 1)}
    \cup {DStr(y, m, d) : y \in ScanYears, m \in ScanMonths, d \in 1..31}
ScanTodays == {DStr(2024, 3, 1), DStr(2024, 1, 15)}
ScanWindows == {NoWindow, 0, 1, WINDOW_DAYS, 60}
ScanFiles ==
    {<<Line(i, NoId, dv, FALSE)>> : i \in {NoId, 1}, dv \in ScanDates}
    \cup {<<Line(1, NoId, dv, FALSE), Line(j, NoId, dw, FALSE)>> :
            dv \in ScanDates, j \in {1, 2}, dw \in {DNone, DStr(2024, 3, 1)}}

ScanCall(today, window_days, lines) ==
    /\ sc.st = "idle"
    /\ sc' = [st |-> "out", today |-> today, window |-> window_days,
              lines |-> lines,
              out |-> ScanExisting(File(lines), today, window_days)]
    /\ UNCHANGED <<runVars, rq, rl, rb, wp, pj, rv, cr, lc, mg, ct, sg, ep, pl>>

(***************************************************************************)
(* TVSeriesDetailsFetcher._scan_existing_custom_refresh (TVSeries_details) *)
(* on a file of one or two lines: the window depends on the record's       *)
(* status, the date read is last_air_date.                                 *)
(***************************************************************************)
\* the value under "status": missing (or null), or a string
StAbsent == [kind |-> "none", s |-> ""]
StStr(x) == [kind |-> "str", s |-> x]
SLine(i, st, lad) == [id |-> i, status |-> st, lad |-> lad]

\* status = obj.get("status") or ""
StatusKey(st) == IF st.kind = "none" THEN "" ELSE st.s

DEFAULT_WINDOW == 60
Always == [always |-> TRUE, days |-> 0]
Days(n) == [always |-> FALSE, days |-> n]

\* a mutant of StatusPolicy: every status gets the default window
StatusPolicyDefault(status) == Days(DEFAULT_WINDOW)

\* STATUS_REFRESH_POLICY.get(status, DEFAULT_WINDOW)
StatusPolicy(status) ==
    CASE status = "Returning Series" -> Always
      [] status = "In Production" -> Days(30)
      [] status = "Pilot" -> Days(90)
      [] status = "Planned" -> Days(90)
      [] status = "Canceled" -> Days(365)
      [] status = "Ended" -> Days(180)
      [] OTHER -> Days(DEFAULT_WINDOW)

\* policy == "always", or in_window(lad, policy)
StatusDue(ln, today) ==
    LET policy == StatusPolicy(StatusKey(ln.status))
    IN IF policy.always THEN TRUE
       ELSE InRefreshWindow(ln.lad, today, policy.days)

RECURSIVE StatusScanFrom(_, _, _, _)
StatusScanFrom(file, i, today, acc) ==
    IF i > Len(file) THEN acc
    ELSE LET ln == file[i] IN
         IF ln.id = NoId
         THEN StatusScanFrom(file, i + 1, today, acc)
         ELSE StatusScanFrom(file, i + 1, today,
                [all_ids |-> acc.all_ids \cup {ln.id},
                 refresh_ids |-> IF StatusDue(ln, today)
                                 THEN acc.refresh_ids \cup {ln.id}
                                 ELSE acc.refresh_ids,
                 kept_lines |-> acc.kept_lines + 1])

ScanExistingCustomRefresh(file, today) ==
    IF ~file.ex THEN [all_ids |-> {}, refresh_ids |-> {}, kept_lines |-> 0]
    ELSE StatusScanFrom(file.lines, 1, today,
                        [all_ids |-> {}, refresh_ids |-> {}, kept_lines |-> 0])

StatusValues ==
    {StAbsent} \cup
    {StStr(x) : x \in {"Returning Series", "In Production", "Pilot", "Planned",
                       "Canceled", "Ended", "Rumored", ""}}
\* last_air_date values: absent, not a string, unparseable, and the days
\* around the ends of each window counted back from 2024-03-01
StatusDates ==
    {DNone, DNum, DJunk,
     DStr(2024, 3, 2), DStr(2024, 3, 1),
     DStr(2024, 1, 31), DStr(2024, 1, 30),
     DStr(2024, 1, 1), DStr(2023, 12, 31),
     DStr(2023, 12, 2), DStr(2023, 12, 1),
     DStr(2023, 9, 3), DStr(2023, 9, 2),
     DStr(2023, 3, 2), DStr(2023, 3, 1)}
StatusToday == DStr(2024, 3, 1)
StatusFiles ==
    {<<SLine(i, st, lad)>> : i \in {NoId, 1}, st \in StatusValues, lad \in StatusDates}
    \cup {<<SLine(1, st, lad), SLine(j, StStr("Ended"), DStr(2024, 1, 30))>> :
            st \in StatusValues, lad \in StatusDates, j \in {1, 2}}

ScanStatusCall(today, lines) ==
    /\ sc.st = "idle"
    /\ sc' = [st |-> "status", today |-> today, lines |-> lines,
              out |-> ScanExistingCustomRefresh(File(lines), today)]
    /\ UNCHANGED <<runVars, rq, rl, rb, wp, pj, rv, cr, lc, mg, ct, sg, ep, pl>>

(***************************************************************************)
(* TVSeasonDetailsFetcher._scan_existing_custom_refresh (TVSeason_details) *)
(* on a file of one or two lines, and the refresh decision of              *)
(* TVEpisodeDetailsFetcher (TVEpisode_details) for one listed episode: the *)
(* window depends on the age of the record, the date read is air_date.     *)
(***************************************************************************)
\* a stored season: series_id and season_number (NoId when not an integer)
SeLine(sid, sn, air) == [series_id |-> sid, season_number |-> sn, air_date |-> air]

\* a mutant of SeasonWindow: an old season gets a window longer than a year
SeasonWindowWide(old_season) == IF old_season THEN 400 ELSE 60

\* window = 180 if old_season else 60
SeasonWindow(old_season) == IF old_season THEN 180 ELSE 60

\* air_date is not None and cutoff <= air_date <= today
SeasonDue(air, today) ==
    IF ~ParsesAsDate(air) THEN FALSE
    ELSE LET old_season == ToOrdinal(air) < ToOrdinal(today) - 365
             cutoff == ToOrdinal(today) - SeasonWindow(old_season)
         IN cutoff <= ToOrdinal(air) /\ ToOrdinal(air) <= ToOrdinal(today)

RECURSIVE SeasonScanFrom(_, _, _, _)
SeasonScanFrom(file, i, today, acc) ==
    IF i > Len(file) THEN acc
    ELSE LET ln == file[i]
             key == <<ln.series_id, ln.season_number>>
         IN IF ln.series_id = NoId \/ ln.season_number = NoId
            THEN SeasonScanFrom(file, i + 1, today, acc)
            ELSE SeasonScanFrom(file, i + 1, today,
                   [existing_keys |-> acc.existing_keys \cup {key},
                    refresh_keys |-> IF SeasonDue(ln.air_date, today)
                                     THEN acc.refresh_keys \cup {key}
                                     ELSE acc.refresh_keys,
                    kept_lines |-> acc.kept_lines + 1])

ScanExistingSeasons(file, today) ==
    IF ~file.ex THEN [existing_keys |-> {}, refresh_keys |-> {}, kept_lines |-> 0]
    ELSE SeasonScanFrom(file.lines, 1, today,
                        [existing_keys |-> {}, refresh_keys |-> {}, kept_lines |-> 0])

\* _episode_in_refresh_window
EpisodeInRefreshWindow(air, today) ==
    IF ~ParsesAsDate(air) THEN FALSE
    ELSE LET old == ToOrdinal(air) < ToOrdinal(today) - 365
             window == IF old THEN 180 ELSE 60
             cutoff == ToOrdinal(today) - window
         IN cutoff <= ToOrdinal(air) /\ ToOrdinal(air) <= ToOrdinal(today)

\* a mutant of EpisodeTarget: an episode without a usable air_date is never
\* a target
EpisodeTargetDated(stored, air, today) ==
    IF ~EpisodeInRefreshWindow(air, today) THEN "none"
    ELSE IF stored THEN "update" ELSE "add"

\* run, step 3: a listed episode becomes a target when it is not stored
\* yet, or when it is stored and its air_date is in the refresh window
EpisodeTarget(stored, air, today) ==
    IF ~stored THEN "add"
    ELSE IF EpisodeInRefreshWindow(air, today) THEN "update" ELSE "none"

\* air_date values: absent, not a string, unparseable, no real day, and the
\* days around today - 60, today - 180, today - 365 and today, for
\* today = 2024-03-01
AirDates ==
    StatusDates \cup {DStr(2024, 2, 30), DStr(2023, 2, 28), DStr(2022, 6, 1)}
AirToday == DStr(2024, 3, 1)
SeasonFiles ==
    {<<SeLine(sid, sn, air)>> : sid \in {NoId, 1}, sn \in {NoId, 1}, air \in AirDates}
    \cup {<<SeLine(1, 1, air), SeLine(1, sn, a2)>> :
            air \in AirDates, sn \in {1, 2}, a2 \in {DNone, DStr(2024, 1, 30)}}

ScanSeasonCall(today, lines) ==
    /\ sc.st = "idle"
    /\ sc' = [st |-> "season", today |-> today, lines |-> lines,
              out |-> ScanExistingSeasons(File(lines), today)]
    /\ UNCHANGED <<runVars, rq, rl, rb, wp, pj, rv, cr, lc, mg, ct, sg, ep, pl>>

ScanEpisodeCall(today, stored, air) ==
    /\ sc.st = "idle"
    /\ sc' = [st |-> "episode", today |-> today, stored |-> stored, air |-> air,
              due |-> EpisodeInRefreshWindow(air, today),
              target |-> EpisodeTarget(stored, air, today)]
    /\ UNCHANGED <<runVars, rq, rl, rb, wp, pj, rv, cr, lc, mg, ct, sg, ep, pl>>

ScanNext ==
    \/ \E today \in ScanTodays, w \in ScanWindows, lines \in ScanFiles :
          ScanCall(today, w, lines)
    \/ \E lines \in StatusFiles : ScanStatusCall(StatusToday, lines)
    \/ \E lines \in SeasonFiles : ScanSeasonCall(AirToday, lines)
    \/ \E stored \in BOOLEAN, air \in AirDates : ScanEpisodeCall(AirToday, stored, air)

SpecScan == Init /\ [][ScanNext]_vars

(***************************************************************************)
(* SpecLim: RateLimiter(rate, per) shared by the pool threads. Time is in  *)
(* ticks; the body of "with self._lock" runs at one instant of the clock.  *)
(***************************************************************************)
\* threads calling acquire()
LimThreads == 3
\* rate (TARGET_RPS in the source, scaled down) and per, in ticks
LimRate == 2
LimPer == 2
\* the clock stops at MaxClock
MaxClock == 5

Threads == 1..LimThreads
Ticks == 0..MaxClock

\* while self._dq and (now - self._dq[0]) >= self.per: self._dq.popleft()
RECURSIVE PopExpired(_, _, _)
PopExpired(dq, now, per) ==
    IF dq # <<>> /\ now - Head(dq) >= per
    THEN PopExpired(Tail(dq), now, per)
    ELSE dq

\* a mutant of HasRoom: the capacity test admits one entry more
HasRoomInclusive(dq, rate) == Len(dq) <= rate

\* if len(self._dq) < self.rate
HasRoom(dq, rate) == Len(dq) < rate

\* sleep_for = self.per - (now - self._dq[0])
SleepFor(dq, now, per) == per - (now - Head(dq))

ThIdle == [at |-> "idle", wake |-> 0]
ThWant == [at |-> "want", wake |-> 0]
ThSleep(w) == [at |-> "sleep", wake |-> w]

RlStart == [st |-> "on", now |-> 0, dq |-> <<>>,
            th |-> [t \in Threads |-> ThIdle],
            grants |-> [i \in Ticks |-> 0]]

\* RateLimiter.__init__
LimStart ==
    /\ rl.st = "idle"
    /\ rl' = RlStart
    /\ UNCHANGED <<runVars, rq, sc, rb, wp, pj, rv, cr, lc, mg, ct, sg, ep, pl>>

\* a thread calls acquire()
LimCall(t) ==
    /\ rl.st = "on"
    /\ rl.th[t].at = "idle"
    /\ rl' = [rl EXCEPT !.th[t] = ThWant]
    /\ UNCHANGED <<runVars, rq, sc, rb, wp, pj, rv, cr, lc, mg, ct, sg, ep, pl>>

\* one turn of "while True" in acquire(): the locked body, then the return
\* or the sleep (time.sleep returns no sooner than asked)
LimTry(t) ==
    /\ rl.st = "on"
    /\ \/ rl.th[t].at = "want"
       \/ rl.th[t].at = "sleep" /\ rl.now >= rl.th[t].wake
    /\ LET dq1 == PopExpired(rl.dq, rl.now, LimPer)
       IN IF HasRoom(dq1, LimRate)
          THEN rl' = [rl EXCEPT !.dq = Append(dq1, rl.now),
                                !.th[t] = ThIdle,
                                !.grants[rl.now] = @ + 1]
          ELSE rl' = [rl EXCEPT !.dq = dq1,
                                !.th[t] = ThSleep(rl.now + SleepFor(dq1, rl.now, LimPer))]
    /\ UNCHANGED <<runVars, rq, sc, rb, wp, pj, rv, cr, lc, mg, ct, sg, ep, pl>>

\* time.monotonic() advances
LimTick ==
    /\ rl.st = "on"
    /\ rl.now < MaxClock
    /\ rl' = [rl EXCEPT !.now = @ + 1]
    /\ UNCHANGED <<runVars, rq, sc, rb, wp, pj, rv, cr, lc, mg, ct, sg, ep, pl>>

LimNext ==
    \/ LimStart
    \/ \E t \in Threads : LimCall(t)
    \/ \E t \in Threads : LimTry(t)
    \/ LimTick

SpecLim == Init /\ [][LimNext]_vars


(***************************************************************************)
(* SpecRebuild: a full-rebuild fetcher run twice while the upstream does   *)
(* not change. "genres" is TVGenreListFetcher (one request per language,   *)
(* the rows of a language appended when its future is processed),          *)
(* "countries" is ConfigurationCountriesFetcher (one request).             *)
(***************************************************************************)
RbKinds == {"genres", "countries"}
RbLangs == {"en", "fr"}
\* the requests of one run
RbUnits(kind) == IF kind = "genres" THEN RbLangs ELSE {"-"}

\* an element of the upstream list: usable (the fields have their types) or not
Item(v) == [ok |-> TRUE, v |-> v]
BadItem == [ok |-> FALSE, v |-> 0]
\* what a request returns: None, a document of another shape, or the list
RbNone == [kind |-> "none", items |-> <<>>]
RbOther == [kind |-> "other", items |-> <<>>]
RbList(q) == [kind |-> "list", items |-> q]
RbAnswers ==
    {RbNone, RbOther}
    \cup {RbList(q) : q \in {<<>>, <<Item(1)>>, <<Item(1), Item(2)>>,
                             <<Item(2), BadItem>>, <<Item(1), Item(1)>>}}

\* _fetch_for_language / _project_rows: one row per usable element
RECURSIVE RowsFrom(_, _, _)
RowsFrom(unit, items, i) ==
    IF i > Len(items) THEN <<>>
    ELSE (IF items[i].ok THEN <<[unit |-> unit, v |-> items[i].v]>> ELSE <<>>)
         \o RowsFrom(unit, items, i + 1)
Rows(unit, data) == IF data.kind = "list" THEN RowsFrom(unit, data.items, 1) ELSE <<>>

\* a mutant of OpenTmp: the temp file starts from the lines of the store
OpenTmpKeeping(prev) == prev

\* self.tmp_path.open("w"): the temp file starts empty
OpenTmp(prev) == <<>>

\* the first run starts on an absent store
RbStart(kind, up) ==
    /\ rb.st = "idle"
    /\ rb' = [st |-> "run", kind |-> kind, up |-> up, run |-> 1,
              pending |-> RbUnits(kind), tmp |-> File(OpenTmp(<<>>)),
              store |-> Absent, first |-> <<>>]
    /\ UNCHANGED <<runVars, rq, sc, rl, wp, pj, rv, cr, lc, mg, ct, sg, ep, pl>>

\* the future of one request is processed: its rows are appended
RbProcess(unit) ==
    /\ rb.st = "run"
    /\ unit \in rb.pending
    /\ rb' = [rb EXCEPT !.pending = @ \ {unit},
                        !.tmp = File(@.lines \o Rows(unit, rb.up[unit]))]
    /\ UNCHANGED <<runVars, rq, sc, rl, wp, pj, rv, cr, lc, mg, ct, sg, ep, pl>>

\* tmp_path.replace(output_path), after which the temp path is empty, and
\* the end of the run
RbFinish ==
    /\ rb.st = "run"
    /\ rb.pending = {}
    /\ rb' = [rb EXCEPT !.store = rb.tmp,
                        !.tmp = Absent,
                        !.first = IF rb.run = 1 THEN rb.tmp.lines ELSE @,
                        !.st = IF rb.run = 1 THEN "between" ELSE "done"]
    /\ UNCHANGED <<runVars, rq, sc, rl, wp, pj, rv, cr, lc, mg, ct, sg, ep, pl>>

\* the fetcher is run again
RbAgain ==
    /\ rb.st = "between"
    /\ rb' = [rb EXCEPT !.st = "run", !.run = 2,
                        !.pending = RbUnits(rb.kind),
                        !.tmp = File(OpenTmp(rb.store.lines))]
    /\ UNCHANGED <<runVars, rq, sc, rl, wp, pj, rv, cr, lc, mg, ct, sg, ep, pl>>

RebuildNext ==
    \/ \E kind \in RbKinds : \E up \in [RbUnits(kind) -> RbAnswers] : RbStart(kind, up)
    \/ \E unit \in RbLangs \cup {"-"} : RbProcess(unit)
    \/ RbFinish
    \/ RbAgain

SpecRebuild == Init /\ [][RebuildNext]_vars


(***************************************************************************)
(* SpecProviders: one run of MovieWatchProvidersFetcher. A movie gives     *)
(* one line per (country, provider) offer of its answer; a 200 body is the *)
(* number of usable offers it holds. The targets are fewer than            *)
(* MAX_IN_FLIGHT, so every one is submitted by the priming loop.           *)
(***************************************************************************)
WpMaxRows == 2
WpRow(k, p) == [id_movie |-> k, provider |-> p]
\* _project_rows: one row per usable (country, provider) of the body
ProjectRows(k, n) == [p \in 1..n |-> WpRow(k, p)]
\* the input ids and the stores the run may start from
WpIdLists == {<<1>>, <<1, 2>>, <<2, 1>>}
WpStores == {Absent, File(<<WpRow(2, 1), WpRow(2, 2)>>)}
WpIdsOf(lines) == {lines[i].id_movie : i \in 1..Len(lines)}
WpFutNew == [st |-> "pending", att |-> 0, res |-> "-", rows |-> <<>>, cnt |-> 0]

\* run, from the input ids to the copy of the retained lines
WpStart(idseq, prev) ==
    /\ wp.st = "idle"
    /\ LET existing == WpIdsOf(prev.lines)
           IsNew(k) == k \notin existing
           tg == SelectSeq(idseq, IsNew)
       IN IF tg = <<>>
          THEN wp' = [st |-> "done", targets |-> tg, fut |-> <<>>,
                      processed |-> 0, ok |-> 0, added |-> 0,
                      errors |-> ZeroCounter, tmp |-> Absent, store |-> prev,
                      log |-> <<Summary(0, 0, Len(prev.lines), ZeroCounter)>>]
          ELSE wp' = [st |-> "run", targets |-> tg,
                      fut |-> [k \in Range(tg) |-> WpFutNew],
                      processed |-> 0, ok |-> 0, added |-> 0,
                      errors |-> ZeroCounter, tmp |-> File(prev.lines),
                      store |-> prev, log |-> <<>>]
    /\ UNCHANGED <<runVars, rq, sc, rl, rb, pj, rv, cr, lc, mg, ct, sg, ep, pl>>

\* fetch_entity_rows in a worker: one response to the request of movie k,
\* up to error_counter.inc when the call gives up; None, of a failed
\* request or of a body null, becomes the empty list of rows, as does a
\* body without a usable offer (n = 0). On a 401 sys.exit runs in the pool
\* thread: the SystemExit is stored in the future of k, as is the
\* ValueError time.sleep raises on a negative Retry-After. The pool threads
\* go on after the main thread has left the loop, since leaving
\* "with ThreadPoolExecutor" waits for the calls in flight.
WpAttempt(k, resp, hint, n) ==
    /\ wp.st \in {"run", "exited", "crashed"}
    /\ k \in DOMAIN wp.fut
    /\ wp.fut[k].st = "pending"
    /\ LET r == Classify(resp, wp.fut[k].att + 1)
       IN IF resp = "429" /\ WaitMs(hint, BASE_BACKOFF_MS) < 0
          THEN wp' = [wp EXCEPT !.fut[k].st = "fetched",
                                !.fut[k].res = "raised"]
          ELSE
          CASE r.act = "data" ->
                  wp' = [wp EXCEPT !.fut[k].st = "fetched",
                                   !.fut[k].res = "rows",
                                   !.fut[k].rows = ProjectRows(k, n)]
            [] r.act = "none" ->
                  wp' = [wp EXCEPT !.fut[k].st = "returning",
                                   !.fut[k].res = "rows",
                                   !.fut[k].cnt = @ + 1,
                                   !.errors = Inc(@, r.cat)]
            [] r.act = "retry" ->
                  wp' = [wp EXCEPT !.fut[k].att = @ + 1]
            [] OTHER ->
                  wp' = [wp EXCEPT !.fut[k].st = "fetched",
                                   !.fut[k].res = "exit"]
    /\ UNCHANGED <<runVars, rq, sc, rl, rb, pj, rv, cr, lc, mg, ct, sg, ep, pl>>

\* tmdb_request returns None after the count, the worker returns [] and the
\* future completes
WpReturn(k) ==
    /\ wp.st \in {"run", "exited", "crashed"}
    /\ k \in DOMAIN wp.fut
    /\ wp.fut[k].st = "returning"
    /\ wp' = [wp EXCEPT !.fut[k].st = "fetched"]
    /\ UNCHANGED <<runVars, rq, sc, rl, rb, pj, rv, cr, lc, mg, ct, sg, ep, pl>>

\* the body of "for fut in done": fut.result() raises the SystemExit of a
\* 401 or the exception of the worker, which leaves run without a swap;
\* else processed is counted, the rows are written and ok and added counted
\* only when there are rows
WpProcess(k) ==
    /\ wp.st = "run"
    /\ k \in DOMAIN wp.fut
    /\ wp.fut[k].st = "fetched"
    /\ LET rows == wp.fut[k].rows
       IN IF wp.fut[k].res \in {"exit", "raised"}
          THEN wp' = [wp EXCEPT !.st = IF wp.fut[k].res = "exit"
                                      THEN "exited" ELSE "crashed",
                                !.fut[k].st = "processed"]
          ELSE IF rows # <<>>
          THEN wp' = [wp EXCEPT !.fut[k].st = "processed",
                                !.processed = @ + 1,
                                !.tmp = File(@.lines \o rows),
                                !.ok = @ + 1,
                                !.added = @ + 1]
          ELSE wp' = [wp EXCEPT !.fut[k].st = "processed",
                                !.processed = @ + 1]
    /\ UNCHANGED <<runVars, rq, sc, rl, rb, pj, rv, cr, lc, mg, ct, sg, ep, pl>>

\* the swap, after which the temp path is empty, the recount of the lines
\* and the summary line
WpFinish ==
    /\ wp.st = "run"
    /\ \A k \in DOMAIN wp.fut : wp.fut[k].st = "processed"
    /\ wp' = [wp EXCEPT !.st = "done",
                        !.store = wp.tmp,
                        !.tmp = Absent,
                        !.log = <<Summary(wp.added, 0, Len(wp.tmp.lines), wp.errors)>>]
    /\ UNCHANGED <<runVars, rq, sc, rl, rb, pj, rv, cr, lc, mg, ct, sg, ep, pl>>

ProvidersNext ==
    \/ \E q \in WpIdLists, prev \in WpStores : WpStart(q, prev)
    \/ \E k \in Keys, resp \in Responses, hint \in UpHints, n \in 0..WpMaxRows :
          /\ (resp # "429" => hint = HAbsent)
          /\ WpAttempt(k, resp, hint, n)
    \/ \E k \in Keys : WpReturn(k)
    \/ \E k \in Keys : WpProcess(k)
    \/ WpFinish

SpecProviders == Init /\ [][ProvidersNext]_vars


(***************************************************************************)
(* SpecProject: one call of a projection on a decoded JSON value.          *)
(* The value found under a key of an object is                             *)
(*   "absent" (no such key), "null", "num" (a number or a boolean),        *)
(*   "str" of n characters, "dict" of n keys, or "list" of items.          *)
(* An item of a list is an object, whose scalar sub-keys are given by f    *)
(* and whose nested list by sub, or a value that is not an object.         *)
(***************************************************************************)
VAbsent == [kind |-> "absent", n |-> 0, items |-> <<>>]
VNull == [kind |-> "null", n |-> 0, items |-> <<>>]
VNum == [kind |-> "num", n |-> 0, items |-> <<>>]
VStr(n) == [kind |-> "str", n |-> n, items |-> <<>>]
VDict(n) == [kind |-> "dict", n |-> n, items |-> <<>>]
VList(q) == [kind |-> "list", n |-> Len(q), items |-> q]

SubKeys == {"id", "author", "content", "created_at", "url",
            "iso_3166_1", "release_date", "type", "certification",
            "english_name", "native_name", "credit_id", "character", "order", "name"}
\* an object holding the keys of S, each with the scalar v
Obj(S, v) == [kind |-> "object",
              f |-> [k \in SubKeys |-> IF k \in S THEN v ELSE "absent"],
              sub |-> VAbsent]
\* an object with the keys of S and a value under "release_dates"
ObjSub(S, v, sub) == [Obj(S, v) EXCEPT !.sub = sub]
NotObj(kind) == [kind |-> kind, f |-> [k \in SubKeys |-> "absent"], sub |-> VAbsent]

\* the decoded body handed to project_fields
Body(kind, idv, res) == [kind |-> kind, id |-> idv, results |-> res]

\* dict.get(k): None when the key is absent
Get(f, k) == IF f[k] = "absent" THEN "null" ELSE f[k]

\* "for entry in v": the values a for loop can iterate, and what it yields
Iterable(v) == v.kind \in {"list", "str", "dict"}
Iterated(v) ==
    IF v.kind = "list" THEN v.items
    ELSE [i \in 1..v.n |-> NotObj("str")]

\* d.get(key, []): the default replaces an absent key only
GetOrEmpty(v) == IF v.kind = "absent" THEN VList(<<>>) ELSE v

Raised == [raised |-> TRUE, id |-> "null", list |-> <<>>]
Returned(idv, q) == [raised |-> FALSE, id |-> idv, list |-> q]

ReviewKeys == {"review_id", "author", "content", "created_at", "url"}
\* the record appended for one entry of results
Review(entry) ==
    [k \in ReviewKeys |-> Get(entry.f, IF k = "review_id" THEN "id" ELSE k)]

\* MovieReviewsFetcher.project_fields: data.get and entry.get raise
\* AttributeError on a value that is not an object, the for loop raises
\* TypeError on a value that cannot be iterated
ProjectReviews(data) ==
    IF data.kind # "object" THEN Raised
    ELSE LET res == GetOrEmpty(data.results) IN
         IF ~Iterable(res) THEN Raised
         ELSE LET q == Iterated(res) IN
              IF \E i \in 1..Len(q) : q[i].kind # "object" THEN Raised
              ELSE Returned(Get([id |-> data.id], "id"),
                            [i \in 1..Len(q) |-> Review(q[i])])

ReleaseKeys == {"iso_3166_1", "release_date", "type", "certification"}
Release(entry, rel) ==
    [k \in ReleaseKeys |->
        IF k = "iso_3166_1" THEN Get(entry.f, k) ELSE Get(rel.f, k)]

\* the inner loop of MovieReleaseDatesFetcher.project_fields for one entry
RECURSIVE Flatten(_, _)
Flatten(q, i) ==
    IF i > Len(q) THEN <<>>
    ELSE LET rels == Iterated(GetOrEmpty(q[i].sub))
         IN [j \in 1..Len(rels) |-> Release(q[i], rels[j])] \o Flatten(q, i + 1)

\* MovieReleaseDatesFetcher.project_fields
ProjectReleaseDates(data) ==
    IF data.kind # "object" THEN Raised
    ELSE LET res == GetOrEmpty(data.results) IN
         IF ~Iterable(res) THEN Raised
         ELSE LET q == Iterated(res)
                  BadEntry(e) ==
                      \/ e.kind # "object"
                      \/ ~Iterable(GetOrEmpty(e.sub))
                      \/ LET rels == Iterated(GetOrEmpty(e.sub))
                         IN \E j \in 1..Len(rels) : rels[j].kind # "object"
              IN IF \E i \in 1..Len(q) : BadEntry(q[i]) THEN Raised
                 ELSE Returned(Get([id |-> data.id], "id"), Flatten(q, 1))

\* a mutant of SelectItem: the item is copied with all of its keys
SelectItemWhole(item, keys) ==
    [k \in {j \in SubKeys : item.f[j] # "absent"} |-> item.f[k]]

\* {k: it.get(k) for k in keys}
SelectItem(item, keys) == [k \in keys |-> Get(item.f, k)]

\* select_list_of_dicts
RECURSIVE SelectFrom(_, _, _)
SelectFrom(q, keys, i) ==
    IF i > Len(q) THEN <<>>
    ELSE (IF q[i].kind = "object" THEN <<SelectItem(q[i], keys)>> ELSE <<>>)
         \o SelectFrom(q, keys, i + 1)
select_list_of_dicts(lst, keys) ==
    IF lst.kind = "list" THEN SelectFrom(lst.items, keys, 1) ELSE <<>>

\* the allow-list of the cast items (Movies_credits)
CastKeys == {"credit_id", "id", "character", "order"}
\* MovieCreditsFetcher.project_fields, the cast list (the list the body
\* holds under "cast")
ProjectCredits(data) ==
    IF data.kind # "object" THEN Raised
    ELSE Returned(Get([id |-> data.id], "id"),
                  select_list_of_dicts(data.results, CastKeys))

CountryKeys == {"iso_3166_1", "english_name", "native_name"}
RECURSIVE CountryRowsFrom(_, _)
CountryRowsFrom(q, i) ==
    IF i > Len(q) THEN <<>>
    ELSE (IF q[i].kind = "object" /\ \A k \in CountryKeys : q[i].f[k] = "str"
          THEN <<[k \in CountryKeys |-> q[i].f[k]]>> ELSE <<>>)
         \o CountryRowsFrom(q, i + 1)
\* ConfigurationCountriesFetcher._project_rows: data is the decoded body
ProjectCountries(data) ==
    Returned("null", IF data.kind = "list"
                     THEN CountryRowsFrom(data.results.items, 1) ELSE <<>>)

\* the projections and the bodies they are called on
Projections == {"reviews", "release_dates", "credits", "countries"}
Scalars == {"str", "null", "num"}
ReviewItems ==
    {Obj({"id", "author", "content", "created_at", "url"}, "str"),
     Obj({"id", "author"}, "null"), Obj({"name"}, "str"), Obj({}, "str")}
ReleaseRels ==
    {Obj({"release_date", "type", "certification"}, "str"), Obj({"type"}, "num"),
     NotObj("null")}
ReleaseSubs ==
    {VAbsent, VNull, VDict(1)} \cup {VList(q) : q \in {<<>>} \cup {<<r>> : r \in ReleaseRels}}
ReleaseItems ==
    {ObjSub({"iso_3166_1"}, "str", s) : s \in ReleaseSubs}
    \cup {ObjSub({}, "str", VList(<<r, r>>)) : r \in ReleaseRels}
CastItems ==
    {Obj({"credit_id", "id", "character", "order"}, v) : v \in Scalars}
    \cup {Obj({"credit_id", "id", "name"}, "str"), Obj({"name"}, "str"), Obj({}, "str")}
CountryItems ==
    {Obj(CountryKeys, v) : v \in Scalars}
    \cup {Obj(S, "str") : S \in {{"iso_3166_1", "english_name"}, {"iso_3166_1"},
                                 CountryKeys \cup {"name"}}}
NonObjects == {NotObj(k) : k \in {"null", "num", "str", "list"}}
ItemsOf(fn) ==
    NonObjects \cup
    (CASE fn = "reviews" -> ReviewItems
       [] fn = "release_dates" -> ReleaseItems
       [] fn = "credits" -> CastItems
       [] OTHER -> CountryItems)
ListsOf(fn) ==
    {VList(<<>>)} \cup {VList(<<a>>) : a \in ItemsOf(fn)}
    \cup {VList(<<a, b>>) : a \in ItemsOf(fn), b \in ItemsOf(fn)}
ValuesOf(fn) == {VAbsent, VNull, VNum, VStr(0), VStr(1), VDict(0), VDict(1)} \cup ListsOf(fn)
\* the bodies json.loads can return to the caller of a projection: for the
\* fetchers of one record per entity an object or another value, for the
\* countries the list itself (or another value)
BodiesOf(fn) ==
    IF fn = "countries"
    THEN {Body("list", "absent", v) : v \in ListsOf(fn)}
         \cup {Body(k, "absent", VAbsent) : k \in {"object", "str", "num"}}
    ELSE {Body("object", idv, v) : idv \in {"absent", "num"}, v \in ValuesOf(fn)}
         \cup {Body(k, "absent", VAbsent) : k \in {"list", "str", "num"}}

Apply(fn, data) ==
    CASE fn = "reviews" -> ProjectReviews(data)
      [] fn = "release_dates" -> ProjectReleaseDates(data)
      [] fn = "credits" -> ProjectCredits(data)
      [] OTHER -> ProjectCountries(data)

ProjectCall(fn, data) ==
    /\ pj.st = "idle"
    /\ pj' = [st |-> "out", fn |-> fn, data |-> data, out |-> Apply(fn, data)]
    /\ UNCHANGED <<runVars, rq, sc, rl, rb, wp, rv, cr, lc, mg, ct, sg, ep, pl>>

ProjectNext == \E fn \in Projections : \E data \in BodiesOf(fn) : ProjectCall(fn, data)

SpecProject == Init /\ [][ProjectNext]_vars


(***************************************************************************)
(* SpecReviews: one run of MovieReviewsFetcher (TMDBFetcher.run with the   *)
(* project_fields of Movies_Reviews) on an absent store, with two ids in   *)
(* the input file: both are targets and both are submitted by the priming  *)
(* loop. A 200 carries one of RunBodies, a 429 one of RunHints.            *)
(***************************************************************************)
RunTargets == <<1, 2>>
RunBodies ==
    {Body("object", "num", VList(<<Obj({"id", "author", "content", "created_at", "url"}, "str")>>)),
     Body("object", "num", VList(<<>>)),
     Body("object", "num", VNull),
     Body("object", "num", VList(<<NotObj("null")>>)),
     Body("list", "absent", VAbsent),
     Body("null", "absent", VAbsent)}
RunHints == {HAbsent, HText, HSecs(2), HSecs(-1)}
NoBody == Body("none", "absent", VAbsent)
RvFutNew == [st |-> "pending", att |-> 0, res |-> "-", body |-> NoBody]

RvStart ==
    /\ rv.st = "idle"
    /\ rv' = [st |-> "run", targets |-> RunTargets,
              fut |-> [k \in Range(RunTargets) |-> RvFutNew],
              processed |-> 0, ok |-> 0, errors |-> ZeroCounter,
              tmp |-> File(<<>>), store |-> Absent, log |-> <<>>]
    /\ UNCHANGED <<runVars, rq, sc, rl, rb, wp, pj, cr, lc, mg, ct, sg, ep, pl>>

\* one turn of the loop of tmdb_request in the worker of target k, up to
\* error_counter.inc when the call gives up. A 200 returns json.loads of
\* the body, None when the body is null, without a count. In the
\* 429 branch time.sleep(min(wait_s, MAX_BACKOFF_SECONDS)) raises ValueError
\* on a negative wait_s; the exception leaves tmdb_request and the worker
\* and is stored in the future. The pool threads go on after the main
\* thread has left the loop on an exception, since leaving
\* "with ThreadPoolExecutor" waits for the calls in flight.
RvAttempt(k, resp, hint, body) ==
    /\ rv.st \in {"run", "exited", "crashed"}
    /\ rv.fut[k].st = "pending"
    /\ LET att == rv.fut[k].att + 1
           r   == Classify(resp, att)
       IN IF resp = "429" /\ WaitMs(hint, BASE_BACKOFF_MS) < 0
          THEN rv' = [rv EXCEPT !.fut[k].st = "finished", !.fut[k].res = "raised"]
          ELSE CASE r.act = "data" ->
                      IF body.kind = "null"
                      THEN rv' = [rv EXCEPT !.fut[k].st = "finished",
                                            !.fut[k].res = "none"]
                      ELSE rv' = [rv EXCEPT !.fut[k].st = "finished",
                                            !.fut[k].res = "data",
                                            !.fut[k].body = body]
                 [] r.act = "none" ->
                      rv' = [rv EXCEPT !.fut[k].st = "returning",
                                       !.fut[k].res = "none",
                                       !.errors = Inc(@, r.cat)]
                 [] r.act = "retry" ->
                      rv' = [rv EXCEPT !.fut[k].att = att]
                 [] OTHER ->
                      rv' = [rv EXCEPT !.fut[k].st = "finished",
                                       !.fut[k].res = "exit"]
    /\ UNCHANGED <<runVars, rq, sc, rl, rb, wp, pj, cr, lc, mg, ct, sg, ep, pl>>

\* tmdb_request returns None after the count and the future completes
RvReturn(k) ==
    /\ rv.st \in {"run", "exited", "crashed"}
    /\ rv.fut[k].st = "returning"
    /\ rv' = [rv EXCEPT !.fut[k].st = "finished"]
    /\ UNCHANGED <<runVars, rq, sc, rl, rb, wp, pj, cr, lc, mg, ct, sg, ep, pl>>

\* the body of "for fut in done" in the main thread. fut.result() raises
\* what the worker raised; project_fields is called on the body of a 200.
\* An exception leaves run: neither the swap nor the summary line happens.
RvProcess(k) ==
    /\ rv.st = "run"
    /\ rv.fut[k].st = "finished"
    /\ LET res == rv.fut[k].res
           out == ProjectReviews(rv.fut[k].body)
       IN CASE res = "exit" ->
                  rv' = [rv EXCEPT !.st = "exited", !.fut[k].st = "processed"]
            [] res = "raised" ->
                  rv' = [rv EXCEPT !.st = "crashed", !.fut[k].st = "processed"]
            [] res = "none" ->
                  rv' = [rv EXCEPT !.fut[k].st = "processed", !.processed = @ + 1]
            [] OTHER ->
                  IF out.raised
                  THEN rv' = [rv EXCEPT !.st = "crashed",
                                        !.fut[k].st = "processed",
                                        !.processed = @ + 1]
                  ELSE rv' = [rv EXCEPT !.fut[k].st = "processed",
                                        !.processed = @ + 1,
                                        !.ok = @ + 1,
                                        !.tmp = File(Append(@.lines, out))]
    /\ UNCHANGED <<runVars, rq, sc, rl, rb, wp, pj, cr, lc, mg, ct, sg, ep, pl>>

\* the loop has ended: swap, then the summary line
RvFinish ==
    /\ rv.st = "run"
    /\ \A k \in Range(rv.targets) : rv.fut[k].st = "processed"
    /\ rv' = [rv EXCEPT !.st = "done",
                        !.store = rv.tmp,
                        !.tmp = Absent,
                        !.log = <<Summary(rv.ok, 0, rv.ok, rv.errors)>>]
    /\ UNCHANGED <<runVars, rq, sc, rl, rb, wp, pj, cr, lc, mg, ct, sg, ep, pl>>

ReviewsNext ==
    \/ RvStart
    \/ \E k \in Range(RunTargets), resp \in Responses, hint \in RunHints, body \in RunBodies :
          /\ (resp # "429" => hint = HAbsent)
          /\ (resp # "200" => body = CHOOSE b \in RunBodies : TRUE)
          /\ RvAttempt(k, resp, hint, body)
    \/ \E k \in Range(RunTargets) : RvReturn(k)
    \/ \E k \in Range(RunTargets) : RvProcess(k)
    \/ RvFinish

SpecReviews == Init /\ [][ReviewsNext]_vars


(***************************************************************************)
(* SpecCred: a fetcher script from its start: TMDBFetcher.__init__ reads   *)
(* the bearer with load_bearer_from_env_file, then main calls run, which   *)
(* works on the store and the temp file and issues requests.               *)
(* A line of .env, after strip(): blank, a comment, a line without "=",    *)
(* or key=value with the key stripped and the value stripped of blanks     *)
(* and quotes.                                                             *)
(***************************************************************************)
EnvBlank == [kind |-> "blank", k |-> "", v |-> ""]
EnvComment == [kind |-> "comment", k |-> "", v |-> ""]
EnvNoEq == [kind |-> "noeq", k |-> "", v |-> ""]
EnvKV(k, v) == [kind |-> "kv", k |-> k, v |-> v]
EnvKeys == {"TMDB_bearer", "TMDB_BEARER", "tmdb_bearer", "TMDB_API_KEY"}
EnvValues == {"tok", ""}
EnvLines == {EnvBlank, EnvComment, EnvNoEq} \cup {EnvKV(k, v) : k \in EnvKeys, v \in EnvValues}
MaxEnvLines == 2
EnvFiles ==
    {Absent} \cup {File(q) : q \in UNION {[1..n -> EnvLines] : n \in 0..MaxEnvLines}}

\* bearer = None
NoBearer == "None"

\* the for loop of load_bearer_from_env_file: the value of the first line
\* whose key is TMDB_bearer or TMDB_BEARER
RECURSIVE FirstBearer(_, _)
FirstBearer(q, i) ==
    IF i > Len(q) THEN NoBearer
    ELSE IF q[i].kind = "kv" /\ q[i].k \in {"TMDB_bearer", "TMDB_BEARER"}
         THEN q[i].v
         ELSE FirstBearer(q, i + 1)

\* a mutant of Missing: no value of bearer is refused
MissingNever(bearer) == FALSE

\* "if not bearer": None or the empty string
Missing(bearer) == bearer \in {NoBearer, ""}

\* load_bearer_from_env_file: sys.exit(1), or the token
LoadBearer(env) ==
    IF ~env.ex THEN [exit |-> TRUE, bearer |-> NoBearer]
    ELSE LET b == FirstBearer(env.lines, 1)
         IN [exit |-> Missing(b), bearer |-> b]

\* requests a run issues at most in this specification
MaxRequests == 2

\* main: the fetcher is constructed
CrConstruct(env) ==
    /\ cr.st = "idle"
    /\ LET r == LoadBearer(env)
       IN cr' = [st |-> IF r.exit THEN "exited" ELSE "ready",
                 env |-> env, bearer |-> r.bearer,
                 touched |-> FALSE, requests |-> 0, sent |-> {}]
    /\ UNCHANGED <<runVars, rq, sc, rl, rb, wp, pj, rv, lc, mg, ct, sg, ep, pl>>

\* run, up to the pool: the store is scanned and the temp file written
CrPrepare ==
    /\ cr.st = "ready"
    /\ cr' = [cr EXCEPT !.st = "running", !.touched = TRUE]
    /\ UNCHANGED <<runVars, rq, sc, rl, rb, wp, pj, rv, lc, mg, ct, sg, ep, pl>>

\* a worker issues a request with the Authorization header
CrRequest ==
    /\ cr.st = "running"
    /\ cr.requests < MaxRequests
    /\ cr' = [cr EXCEPT !.requests = @ + 1, !.sent = @ \cup {cr.bearer}]
    /\ UNCHANGED <<runVars, rq, sc, rl, rb, wp, pj, rv, lc, mg, ct, sg, ep, pl>>

\* the run ends with the swap
CrFinish ==
    /\ cr.st = "running"
    /\ cr' = [cr EXCEPT !.st = "done"]
    /\ UNCHANGED <<runVars, rq, sc, rl, rb, wp, pj, rv, lc, mg, ct, sg, ep, pl>>

CredNext ==
    \/ \E env \in EnvFiles : CrConstruct(env)
    \/ CrPrepare
    \/ CrRequest
    \/ CrFinish

SpecCred == Init /\ [][CredNext]_vars


(***************************************************************************)
(* SpecLocal: steps 2 to 4 of TMDBFetcher.run (no date window) on the raw  *)
(* lines of an existing store. A raw line is                               *)
(*   "record"    an object with an integer under id_field                  *)
(*   "keyless"   an object without an integer under id_field               *)
(*   "notjson"   text json.loads rejects (a blank line included)           *)
(*   "nonobject" valid JSON that is not an object: a list, a number, a     *)
(*               string, null                                              *)
(***************************************************************************)
Raw(kind, i) == [kind |-> kind, id |-> i]
RawLines == {Raw("record", 1), Raw("record", 2), Raw("keyless", NoId),
             Raw("notjson", NoId), Raw("nonobject", NoId)}
MaxRawLines == 3
RawFiles == UNION {[1..n -> RawLines] : n \in 0..MaxRawLines}
\* the input files: the id of a stored record, or a new one
RawInputs == {<<1>>, <<3>>}

\* the loop of scan_existing_ndjson over the raw lines: json.loads failing
\* is caught, obj.get on a value that is not an object raises
\* AttributeError, which nothing catches
RECURSIVE RawScanFrom(_, _, _)
RawScanFrom(q, i, acc) ==
    IF i > Len(q) THEN acc
    ELSE CASE q[i].kind = "notjson" -> RawScanFrom(q, i + 1, acc)
           [] q[i].kind = "nonobject" -> [acc EXCEPT !.raised = TRUE]
           [] q[i].kind = "keyless" -> RawScanFrom(q, i + 1, acc)
           [] OTHER -> RawScanFrom(q, i + 1,
                          [acc EXCEPT !.all_ids = @ \cup {q[i].id},
                                      !.kept_lines = @ + 1])
RawScan(q) == RawScanFrom(q, 1, [raised |-> FALSE, all_ids |-> {}, kept_lines |-> 0])

\* the loop of the copy step: the same parsing, every object line whose
\* integer id is not a target is written
RECURSIVE RawCopyFrom(_, _, _, _)
RawCopyFrom(q, targets_set, i, acc) ==
    IF i > Len(q) THEN acc
    ELSE CASE q[i].kind = "notjson" -> RawCopyFrom(q, targets_set, i + 1, acc)
           [] q[i].kind = "nonobject" -> [acc EXCEPT !.raised = TRUE]
           [] q[i].kind = "record" /\ q[i].id \in targets_set ->
                  RawCopyFrom(q, targets_set, i + 1, acc)
           [] OTHER -> RawCopyFrom(q, targets_set, i + 1,
                          [acc EXCEPT !.lines = Append(@, q[i])])
RawCopy(q, targets_set) == RawCopyFrom(q, targets_set, 1, [raised |-> FALSE, lines |-> <<>>])

\* step 2: the scan; an exception leaves run
LcScan(q, idseq) ==
    /\ lc.st = "idle"
    /\ LET s == RawScan(q)
       IN lc' = [st |-> IF s.raised THEN "crashed" ELSE "scanned",
                 lines |-> q, ids |-> idseq,
                 all_ids |-> s.all_ids, kept_lines |-> s.kept_lines,
                 targets |-> {}, tmp |-> Absent, copied_existing |-> 0,
                 warnings |-> 0, store |-> File(q), log |-> <<>>]
    /\ UNCHANGED <<runVars, rq, sc, rl, rb, wp, pj, rv, cr, mg, ct, sg, ep, pl>>

\* steps 3 and 4: the targets, then the copy to the temp file (no copy when
\* there is no target). Neither the scan nor the copy keeps a count of the
\* lines it skips.
LcCopy ==
    /\ lc.st = "scanned"
    /\ LET tg == {lc.ids[i] : i \in 1..Len(lc.ids)} \ lc.all_ids
           c  == RawCopy(lc.lines, tg)
       IN IF tg = {}
          THEN lc' = [lc EXCEPT !.st = "nothing"]
          ELSE lc' = [lc EXCEPT !.st = IF c.raised THEN "crashed" ELSE "copied",
                                !.targets = tg,
                                !.tmp = File(c.lines),
                                !.copied_existing = Len(c.lines)]
    /\ UNCHANGED <<runVars, rq, sc, rl, rb, wp, pj, rv, cr, mg, ct, sg, ep, pl>>

\* no target: the store is renamed away and back, and the summary line
\* reports the scan's kept_lines
LcNoopLog ==
    /\ lc.st = "nothing"
    /\ lc' = [lc EXCEPT !.st = "done",
                        !.log = <<Summary(0, 0, lc.kept_lines, ZeroCounter)>>]
    /\ UNCHANGED <<runVars, rq, sc, rl, rb, wp, pj, rv, cr, mg, ct, sg, ep, pl>>

\* steps 5 to 8 with the targets of okset fetched and the others answered
\* 404: one line per fetched target is appended, the temp file replaces
\* the store and the summary line reports copied_existing + ok
LcFetch(okset) ==
    /\ lc.st = "copied"
    /\ okset \subseteq lc.targets
    /\ LET new == SortedSeq(okset)
           ok_ == Cardinality(okset)
       IN lc' = [lc EXCEPT
                   !.st = "done",
                   !.store = File(lc.tmp.lines \o [i \in 1..Len(new) |-> Raw("record", new[i])]),
                   !.tmp = Absent,
                   !.log = <<Summary(ok_, 0, TotalLines(lc.copied_existing, lc.kept_lines, ok_),
                                     [ZeroCounter EXCEPT !["404"] = Cardinality(lc.targets \ okset)])>>]
    /\ UNCHANGED <<runVars, rq, sc, rl, rb, wp, pj, rv, cr, mg, ct, sg, ep, pl>>

LocalNext ==
    \/ \E q \in RawFiles, idseq \in RawInputs : LcScan(q, idseq)
    \/ LcCopy
    \/ LcNoopLog
    \/ \E okset \in SUBSET {3} : LcFetch(okset)

SpecLocal == Init /\ [][LocalNext]_vars


(***************************************************************************)
(* SpecMerge: merge(mode, src, final) of merge_tmdb_into_final.py ("tmdb") *)
(* and of dumps_daily/merge_dumps_final.py ("dumps"), run twice with the   *)
(* same source. A line of a JSONL file is an object whose "id" is an       *)
(* integer n, the numeral "n" as a string, the float n.5, a text int()     *)
(* rejects, or absent; or text that is not JSON; or JSON that is not an    *)
(* object (a number, a list, the list ["id"] having t = "id"). norm tells  *)
(* whether the object holds the field normalize_payload adds.              *)
(***************************************************************************)
MLine(kind, t, n, norm) == [kind |-> kind, t |-> t, n |-> n, norm |-> norm]
MObj(t, n) == MLine("object", t, n, FALSE)
MergeLines ==
    {MObj("int", 1), MObj("int", 2), MObj("str", 1), MObj("float", 2),
     MObj("text", 0), MObj("none", 0), MLine("object", "int", 1, TRUE),
     MLine("notjson", "none", 0, FALSE), MLine("list", "none", 0, FALSE),
     MLine("list", "id", 0, FALSE), MLine("num", "none", 0, FALSE)}
MaxMergeLines == 2
MergeFiles == UNION {[1..n -> MergeLines] : n \in 0..MaxMergeLines}
MergeImpls == {"tmdb", "dumps"}

\* parse_id_and_payload: "skip" for (None, None), "raise" for an exception
\* that leaves it, else the integer key and the payload. json.loads failing
\* is caught; the tmdb version tests "id" not in obj, which is True on a
\* list without the string "id", lets obj["id"] raise TypeError on a list
\* with it, and raises TypeError on a number; the dumps version calls
\* obj.get, which raises AttributeError on all of them; int(iid) failing is
\* caught.
Parsed(act, iid, payload) == [act |-> act, iid |-> iid, payload |-> payload]
ParseIdAndPayload(impl, ln) ==
    CASE ln.kind = "notjson" -> Parsed("skip", 0, ln)
      [] ln.kind = "list" ->
            IF impl = "tmdb" /\ ln.t # "id"
            THEN Parsed("skip", 0, ln) ELSE Parsed("raise", 0, ln)
      [] ln.kind = "num" -> Parsed("raise", 0, ln)
      [] ln.t \in {"none", "text"} -> Parsed("skip", 0, ln)
      [] OTHER -> Parsed("keep", ln.n, [ln EXCEPT !.norm = TRUE])

\* a mutant of Remember: the key just written is not remembered
RememberNot(seen, iid) == seen

\* existing_ids.add(iid)
Remember(seen, iid) == seen \cup {iid}

\* one of the two loops of merge over the lines of a file
RECURSIVE MergeLoop(_, _, _, _)
MergeLoop(impl, q, i, acc) ==
    IF i > Len(q) THEN acc
    ELSE LET p == ParseIdAndPayload(impl, q[i]) IN
         CASE p.act = "raise" -> [acc EXCEPT !.raised = TRUE]
           [] p.act = "skip" \/ p.iid \in acc.existing_ids ->
                 MergeLoop(impl, q, i + 1, acc)
           [] OTHER ->
                 MergeLoop(impl, q, i + 1,
                    [acc EXCEPT !.existing_ids = Remember(@, p.iid),
                                !.out = Append(@, p.payload),
                                !.n = @ + 1])

\* merge: the final is replayed without its duplicates, the new ids of the
\* source are appended, the result replaces the final; an exception leaves
\* the final as it was
Merge(impl, src, final) ==
    LET a == MergeLoop(impl, final, 1,
                 [raised |-> FALSE, existing_ids |-> {}, out |-> <<>>, n |-> 0])
        b == IF a.raised THEN a ELSE MergeLoop(impl, src, 1, [a EXCEPT !.n = 0])
    IN IF b.raised
       THEN [raised |-> TRUE, final |-> final, added |-> 0, total |-> 0]
       ELSE [raised |-> FALSE, final |-> b.out, added |-> b.n, total |-> Len(b.out)]

MgMerge(impl, src, final) ==
    /\ mg.st = "idle"
    /\ LET r == Merge(impl, src, final)
       IN mg' = [st |-> IF r.raised THEN "raised" ELSE "merged",
                 impl |-> impl, src |-> src, old |-> final,
                 first |-> r.final, added1 |-> r.added,
                 final |-> r.final, added |-> r.added, total |-> r.total]
    /\ UNCHANGED <<runVars, rq, sc, rl, rb, wp, pj, rv, cr, lc, ct, sg, ep, pl>>

\* the same source is merged a second time
MgAgain ==
    /\ mg.st = "merged"
    /\ LET r == Merge(mg.impl, mg.src, mg.final)
       IN mg' = [mg EXCEPT !.st = IF r.raised THEN "raised" ELSE "again",
                           !.final = r.final, !.added = r.added, !.total = r.total]
    /\ UNCHANGED <<runVars, rq, sc, rl, rb, wp, pj, rv, cr, lc, ct, sg, ep, pl>>

MergeNext ==
    \/ \E impl \in MergeImpls, src \in MergeFiles, final \in MergeFiles :
          MgMerge(impl, src, final)
    \/ MgAgain

SpecMerge == Init /\ [][MergeNext]_vars


(***************************************************************************)
(* SpecCount: ErrorCounter and ProgressTracker called by several threads.  *)
(* A call takes the lock of its object, and under it an inc reads the      *)
(* entry, then stores the value read plus one; total() sums the entries;   *)
(* ProgressTracker.set stores the value it is given.                       *)
(* A thread is switched out between any two of these steps.                *)
(***************************************************************************)
CountThreads == 2
MaxCalls == 3
ErrorKeys == {"404", "URLError"}
ProgressKeys == {"processed", "ok"}
CountObjects == {"errors", "progress"}
KeysOf(obj) == IF obj = "errors" THEN ErrorKeys ELSE ProgressKeys
\* the calls a thread can make
SetValues == {0, 5}
CountOps ==
    {[fn |-> "inc", obj |-> o, key |-> k, value |-> 0] :
        o \in CountObjects, k \in ErrorKeys \cup ProgressKeys}
    \cup {[fn |-> "total", obj |-> "errors", key |-> "", value |-> 0]}
    \cup {[fn |-> "set", obj |-> "progress", key |-> k, value |-> v] :
             k \in ProgressKeys, v \in SetValues}
NoOp == [fn |-> "none", obj |-> "", key |-> "", value |-> 0]
NoHolder == 0

\* a mutant of LockFree: the lock excludes nobody
LockAlwaysFree(holder) == TRUE

\* threading.Lock: acquire blocks while another thread holds the lock
LockFree(holder) == holder = NoHolder

\* the objects after construction, no call in progress
CtStart ==
    /\ ct.st = "idle"
    /\ ct' = [st |-> "run",
              lock |-> [o \in CountObjects |-> NoHolder],
              val |-> [o \in CountObjects |-> [k \in KeysOf(o) |-> 0]],
              pc |-> [t \in 1..CountThreads |-> "idle"],
              op |-> [t \in 1..CountThreads |-> NoOp],
              reg |-> [t \in 1..CountThreads |-> 0],
              made |-> [o \in CountObjects |-> [k \in KeysOf(o) |-> 0]],
              was_set |-> [o \in CountObjects |-> [k \in KeysOf(o) |-> FALSE]],
              calls |-> 0,
              last_total |-> 0]
    /\ UNCHANGED <<runVars, rq, sc, rl, rb, wp, pj, rv, cr, lc, mg, sg, ep, pl>>

\* a thread enters inc(key), total() or set(key, value)
CtCall(t, o) ==
    /\ ct.st = "run" /\ ct.pc[t] = "idle" /\ ct.calls < MaxCalls
    /\ o.fn \in {"inc", "set"} => o.key \in KeysOf(o.obj)
    /\ ct' = [ct EXCEPT !.pc[t] = "want", !.op[t] = o, !.calls = @ + 1,
                        !.made = IF o.fn = "inc"
                                 THEN [@ EXCEPT ![o.obj][o.key] = @ + 1] ELSE @,
                        !.was_set = IF o.fn = "set"
                                    THEN [@ EXCEPT ![o.obj][o.key] = TRUE] ELSE @]
    /\ UNCHANGED <<runVars, rq, sc, rl, rb, wp, pj, rv, cr, lc, mg, sg, ep, pl>>

\* with self._lock: (entry)
CtAcquire(t) ==
    /\ ct.st = "run" /\ ct.pc[t] = "want"
    /\ LockFree(ct.lock[ct.op[t].obj])
    /\ ct' = [ct EXCEPT !.pc[t] = "locked", !.lock[ct.op[t].obj] = t]
    /\ UNCHANGED <<runVars, rq, sc, rl, rb, wp, pj, rv, cr, lc, mg, sg, ep, pl>>

\* the load of self._counter[key] (self._state[key]), the sum of total(),
\* or the argument of set
CtRead(t) ==
    /\ ct.st = "run" /\ ct.pc[t] = "locked"
    /\ LET o == ct.op[t] IN
       ct' = [ct EXCEPT !.pc[t] = "read",
                        !.reg[t] = IF o.fn = "inc" THEN ct.val[o.obj][o.key]
                                   ELSE IF o.fn = "set" THEN o.value
                                   ELSE SumOver(ct.val["errors"], ErrorKeys)]
    /\ UNCHANGED <<runVars, rq, sc, rl, rb, wp, pj, rv, cr, lc, mg, sg, ep, pl>>

\* the store of the value read plus one, or of the value given to set;
\* total() stores nothing
CtWrite(t) ==
    /\ ct.st = "run" /\ ct.pc[t] = "read"
    /\ LET o == ct.op[t] IN
       ct' = [ct EXCEPT !.pc[t] = "written",
                        !.val = IF o.fn = "inc"
                                THEN [@ EXCEPT ![o.obj][o.key] = ct.reg[t] + 1]
                                ELSE IF o.fn = "set"
                                THEN [@ EXCEPT ![o.obj][o.key] = ct.reg[t]]
                                ELSE @]
    /\ UNCHANGED <<runVars, rq, sc, rl, rb, wp, pj, rv, cr, lc, mg, sg, ep, pl>>

\* with self._lock: (exit), and the return of the call
CtRelease(t) ==
    /\ ct.st = "run" /\ ct.pc[t] = "written"
    /\ LET o == ct.op[t] IN
       ct' = [ct EXCEPT !.pc[t] = "idle", !.op[t] = NoOp,
                        !.lock[o.obj] = NoHolder,
                        !.last_total = IF o.fn = "total" THEN ct.reg[t] ELSE @]
    /\ UNCHANGED <<runVars, rq, sc, rl, rb, wp, pj, rv, cr, lc, mg, sg, ep, pl>>

CountNext ==
    \/ CtStart
    \/ \E t \in 1..CountThreads, o \in CountOps : CtCall(t, o)
    \/ \E t \in 1..CountThreads : CtAcquire(t)
    \/ \E t \in 1..CountThreads : CtRead(t)
    \/ \E t \in 1..CountThreads : CtWrite(t)
    \/ \E t \in 1..CountThreads : CtRelease(t)

SpecCount == Init /\ [][CountNext]_vars


(***************************************************************************)
(* SpecSingle: a single-call full-rebuild fetcher run one time after       *)
(* another (ConfigurationCountriesFetcher, ConfigurationLanguagesFetcher,  *)
(* MovieCertificationsFetcher). The request is made in the main thread;    *)
(* the upstream body may differ from one run to the next.                  *)
(***************************************************************************)
SingleKinds == {"countries", "languages", "certifications"}
MaxRuns == 2
\* {"certifications": {country: [...]}}, flattened to its elements
SgCerts(q) == [kind |-> "certs", items |-> q]
\* the body null, which json.loads returns as None
RbNull == [kind |-> "null", items |-> <<>>]
\* the bodies the endpoint may answer with
SingleBodies ==
    {RbOther, RbNull}
    \cup {RbList(q) : q \in {<<>>, <<Item(1)>>, <<Item(2), BadItem>>}}
    \cup {SgCerts(q) : q \in {<<>>, <<Item(1), Item(2)>>, <<BadItem, Item(1)>>}}

\* _project_rows(data or []) / _project_rows(data or {}): the rows, or the
\* exception of data.get on a non-empty list
ProjectSingle(kind, data) ==
    IF kind = "certifications"
    THEN IF data.kind = "list" /\ data.items # <<>>
         THEN [raised |-> TRUE, rows |-> <<>>]
         ELSE [raised |-> FALSE,
               rows |-> IF data.kind = "certs"
                        THEN RowsFrom("-", data.items, 1) ELSE <<>>]
    ELSE [raised |-> FALSE, rows |-> Rows("-", data)]

\* the fetcher is constructed; nothing has been stored yet
SgStart(kind) ==
    /\ sg.st = "idle"
    /\ sg' = [st |-> "ready", kind |-> kind, store |-> Absent, tmp |-> Absent,
              runs |-> 0, prev |-> Absent, body |-> RbNone, data |-> RbNone,
              attempts |-> 0, errors |-> ZeroCounter, log |-> <<>>]
    /\ UNCHANGED <<runVars, rq, sc, rl, rb, wp, pj, rv, cr, lc, mg, ct, ep, pl>>

\* a process starts run()
SgBegin(body) ==
    /\ sg.st \in {"ready", "done", "exited", "crashed"}
    /\ sg.runs < MaxRuns
    /\ sg' = [sg EXCEPT !.st = "request", !.runs = @ + 1, !.prev = sg.store,
                        !.body = body, !.data = RbNone, !.attempts = 0,
                        !.errors = ZeroCounter, !.log = <<>>]
    /\ UNCHANGED <<runVars, rq, sc, rl, rb, wp, pj, rv, cr, lc, mg, ct, ep, pl>>

\* one turn of the while loop of tmdb_request, called in the main thread: a
\* 200 returns json.loads of the body, None when the body is null, without
\* a count; the ValueError time.sleep raises on a negative Retry-After
\* leaves run
SgAttempt(resp, hint) ==
    /\ sg.st = "request"
    /\ LET att == sg.attempts + 1
           r   == Classify(resp, att)
       IN sg' =
            IF resp = "429" /\ WaitMs(hint, BASE_BACKOFF_MS) < 0
            THEN [sg EXCEPT !.attempts = att, !.st = "crashed"]
            ELSE
            CASE r.act = "retry" -> [sg EXCEPT !.attempts = att]
              [] r.act = "data" -> [sg EXCEPT !.attempts = att,
                                              !.data = IF sg.body = RbNull
                                                       THEN RbNone ELSE sg.body,
                                              !.st = "project"]
              [] r.act = "none" -> [sg EXCEPT !.attempts = att, !.data = RbNone,
                                              !.errors = Inc(@, r.cat),
                                              !.st = "project"]
              [] OTHER -> [sg EXCEPT !.attempts = att, !.st = "exited"]
    /\ UNCHANGED <<runVars, rq, sc, rl, rb, wp, pj, rv, cr, lc, mg, ct, ep, pl>>

\* the rows are projected and written to the temp file, opened "w"
SgWrite ==
    /\ sg.st = "project"
    /\ LET p == ProjectSingle(sg.kind, sg.data)
       IN sg' = IF p.raised
                THEN [sg EXCEPT !.st = "crashed"]
                ELSE [sg EXCEPT !.st = "swap",
                                !.tmp = File(OpenTmp(sg.store.lines) \o p.rows)]
    /\ UNCHANGED <<runVars, rq, sc, rl, rb, wp, pj, rv, cr, lc, mg, ct, ep, pl>>

\* tmp_path.replace(output_path)
SgSwap ==
    /\ sg.st = "swap"
    /\ sg' = [sg EXCEPT !.st = "log", !.store = sg.tmp, !.tmp = Absent]
    /\ UNCHANGED <<runVars, rq, sc, rl, rb, wp, pj, rv, cr, lc, mg, ct, ep, pl>>

\* append_summary_log(total_lines, 0, total_lines)
SgLog ==
    /\ sg.st = "log"
    /\ sg' = [sg EXCEPT !.st = "done",
                        !.log = Append(@, Summary(Len(sg.store.lines), 0,
                                                  Len(sg.store.lines), sg.errors))]
    /\ UNCHANGED <<runVars, rq, sc, rl, rb, wp, pj, rv, cr, lc, mg, ct, ep, pl>>

SingleNext ==
    \/ \E kind \in SingleKinds : SgStart(kind)
    \/ \E body \in SingleBodies : SgBegin(body)
    \/ \E resp \in Responses, hint \in UpHints :
          /\ (resp # "429" => hint = HAbsent)
          /\ SgAttempt(resp, hint)
    \/ SgWrite
    \/ SgSwap
    \/ SgLog

SpecSingle == Init /\ [][SingleNext]_vars


(***************************************************************************)
(* SpecPipeline: run_all_scripts.py, one invocation.                       *)
(* pl.running is the set of child processes alive, pl.started the scripts  *)
(* launched so far in launch order, pl.i the Python index of the next      *)
(* script of EXECUTION_ORDER.                                              *)
(***************************************************************************)
EXECUTION_ORDER ==
    << "Configuration_languages.py", "Genre_series.py", "Genre_movies.py",
       "Movies_Details.py", "Movies_AlternativeTitles.py",
       "Movies_Certifications.py", "Movies_Credits.py",
       "Movies_ExternalIDs.py", "Movies_Keywords.py",
       "Movies_ReleaseDates.py", "Movies_Reviews.py",
       "Movies_Translations.py", "TVSeason_details.py",
       "TVEpisode_details.py", "TVSeries_Content.py",
       "TVSeries_AlternativeTitles.py", "TVSeries_Credits.py",
       "TVSeries_details.py", "TVSeries_ExternalID.py",
       "TVSeries_Keywords.py", "TVSeries_Reviews.py",
       "TVSeries_Translations.py", "Company_details.py",
       "Configuration_countries.py", "Network_details.py",
       "People_details.py", "Certifications_series.py" >>

DumpsScript == "fetch_dumps_daily.sh"

\* Python index of a script name in EXECUTION_ORDER.
IndexOf(name) ==
    (CHOOSE k \in 1..Len(EXECUTION_ORDER) : EXECUTION_ORDER[k] = name) - 1

\* --start-from as resolve_start_index sees it: absent, or a key with the
\* name whose lower-cased form equals it (exact, "-" if none) and the Python
\* indices of the names that contain it (candidates).
NoStartFrom == [given |-> FALSE]
StartFromInputs ==
    {NoStartFrom}
    \cup {[given |-> TRUE, exact |-> EXECUTION_ORDER[k], candidates |-> {k - 1}] :
              k \in 1..Len(EXECUTION_ORDER)}
    \cup {[given |-> TRUE, exact |-> "-", candidates |-> S] :
              S \in {{}, {IndexOf("TVEpisode_details.py")},
                     {IndexOf("TVSeason_details.py"), IndexOf("TVSeries_details.py")}}}

\* resolve_start_index: the index, or -1 where the code prints ECHEC and
\* calls sys.exit(2).
resolve_start_index(start_from) ==
    IF ~start_from.given THEN 0
    ELSE IF start_from.exact # "-" THEN IndexOf(start_from.exact)
    ELSE IF Cardinality(start_from.candidates) = 1
         THEN CHOOSE k \in start_from.candidates : TRUE
    ELSE -1

ExitCodes == {0, 1, 3}

PlExit(rc) == [pl EXCEPT !.st = "exit", !.rc = rc, !.running = {}]

\* main up to the try block: assert_paths, parse_args, --list,
\* resolve_start_index.
PlMain(paths_ok, list, skip_dumps, start_from) ==
    /\ pl.st = "idle"
    /\ LET base == [st |-> "resolved", start_idx |-> 0, skip_dumps |-> skip_dumps,
                    i |-> 0, running |-> {}, started |-> <<>>, rc |-> 0]
           idx  == resolve_start_index(start_from)
       IN  pl' = IF ~paths_ok THEN [base EXCEPT !.st = "exit", !.rc = 2]
                 ELSE IF list THEN [base EXCEPT !.st = "listed"]
                 ELSE IF idx < 0 THEN [base EXCEPT !.st = "exit", !.rc = 2]
                 ELSE [base EXCEPT !.start_idx = idx, !.i = idx]
    /\ UNCHANGED <<runVars, rq, sc, rl, rb, wp, pj, rv, cr, lc, mg, ct, sg, ep>>

\* run_fetch_dumps is launched on a full run without --skip-dumps only.
PlDumps ==
    /\ pl.st = "resolved"
    /\ pl' = IF ~pl.skip_dumps /\ pl.start_idx = 0
                 THEN [pl EXCEPT !.st = "dumps", !.running = {DumpsScript},
                                 !.started = Append(@, DumpsScript)]
                 ELSE [pl EXCEPT !.st = "loop"]
    /\ UNCHANGED <<runVars, rq, sc, rl, rb, wp, pj, rv, cr, lc, mg, ct, sg, ep>>

\* subprocess.run(["bash", sh], check=True) returns or raises.
PlDumpsExit(rc) ==
    /\ pl.st = "dumps"
    /\ pl' = IF rc = 0 THEN [pl EXCEPT !.st = "loop", !.running = {}]
             ELSE PlExit(rc)
    /\ UNCHANGED <<runVars, rq, sc, rl, rb, wp, pj, rv, cr, lc, mg, ct, sg, ep>>

\* run_script: the next script of EXECUTION_ORDER[start_idx:] is launched.
PlRunScript ==
    /\ pl.st = "loop"
    /\ pl.i < Len(EXECUTION_ORDER)
    /\ pl' = [pl EXCEPT !.st = "script",
                        !.running = @ \cup {EXECUTION_ORDER[pl.i + 1]},
                        !.started = Append(@, EXECUTION_ORDER[pl.i + 1])]
    /\ UNCHANGED <<runVars, rq, sc, rl, rb, wp, pj, rv, cr, lc, mg, ct, sg, ep>>

\* subprocess.run(..., check=True) returns, or raises CalledProcessError
\* and main exits with the script's return code.
PlScriptExit(rc) ==
    /\ pl.st = "script"
    /\ pl' = IF rc = 0 THEN [pl EXCEPT !.st = "loop", !.running = {}, !.i = @ + 1]
             ELSE PlExit(rc)
    /\ UNCHANGED <<runVars, rq, sc, rl, rb, wp, pj, rv, cr, lc, mg, ct, sg, ep>>

\* KeyboardInterrupt anywhere in the try block, a child running or not
\* (subprocess.run kills the child it waits for): main exits 130.
PlInterrupt ==
    /\ pl.st \in {"resolved", "loop", "dumps", "script"}
    /\ pl' = PlExit(130)
    /\ UNCHANGED <<runVars, rq, sc, rl, rb, wp, pj, rv, cr, lc, mg, ct, sg, ep>>

\* The loop is exhausted: "OK: pipeline terminée".
PlDone ==
    /\ pl.st = "loop"
    /\ pl.i >= Len(EXECUTION_ORDER)
    /\ pl' = [pl EXCEPT !.st = "ok"]
    /\ UNCHANGED <<runVars, rq, sc, rl, rb, wp, pj, rv, cr, lc, mg, ct, sg, ep>>

PipelineNext ==
    \/ \E paths_ok \in BOOLEAN, list \in BOOLEAN, skip_dumps \in BOOLEAN,
          start_from \in StartFromInputs :
           PlMain(paths_ok, list, skip_dumps, start_from)
    \/ PlDumps
    \/ \E rc \in ExitCodes : PlDumpsExit(rc)
    \/ PlRunScript
    \/ \E rc \in ExitCodes : PlScriptExit(rc)
    \/ PlInterrupt
    \/ PlDone

SpecPipeline == Init /\ [][PipelineNext]_vars


(***************************************************************************)
(* SpecEpisodes: one run of TVEpisodeDetailsFetcher.run. The seasons of    *)
(* tv_seasons_details.ndjson are EpPairs; each season listing and each     *)
(* episode call is one tmdb_request, given by what it returns: a decoded   *)
(* body, None after a failure (one error counted), None for a 200 whose    *)
(* body is null (nothing counted), or sys.exit on a 401. The episode calls *)
(* run in the pool, each submitted call in a thread of its own (the        *)
(* targets are fewer than the 64 threads), and complete in any order.      *)
(***************************************************************************)
MaxListing == 2

\* a stored episode
EpLine(sid, sn, en, air) ==
    [series_id |-> sid, season_number |-> sn, episode_number |-> en, air_date |-> air]

EpKey(ln) == <<ln.series_id, ln.season_number, ln.episode_number>>

EpPairs == << <<1, 1>>, <<1, 2>> >>

EpRecent == DStr(2024, 1, 31)
EpStale  == DStr(2023, 9, 2)

\* an element of "episodes" in the season body: episode_number (NoId when
\* not an integer) and air_date
EpEntry(en, air) == [episode_number |-> en, air_date |-> air]
EpEntries ==
    {EpEntry(1, EpRecent), EpEntry(1, EpStale), EpEntry(2, DNum), EpEntry(NoId, EpRecent)}

EpNone == [kind |-> "none"]
\* json.loads of the body null: None, returned without a count
EpNull == [kind |-> "null"]
EpExit == [kind |-> "exit"]
EpData(b) == [kind |-> "data", body |-> b]

\* what the listing call of the k-th season may return: its body holds up
\* to MaxListing episodes, one fewer for each season before it
ListingOutcomes(k) ==
    {EpNone, EpNull, EpExit}
    \cup {EpData(b) : b \in UNION {[1..n -> EpEntries] : n \in 0..(MaxListing + 1 - k)}}

\* the body of an episode: its season_number and episode_number (NoId
\* when the body has none) and its air_date
EpBody(sn, en, air) == [season_number |-> sn, episode_number |-> en, air_date |-> air]

\* what the call for the episode of a key may return
EpisodeOutcomes(key) ==
    {EpNone, EpNull, EpExit,
     EpData(EpBody(key[2], key[3], EpRecent)), EpData(EpBody(NoId, NoId, EpRecent))}

\* stores: episodes with the air dates stored by earlier runs; a line
\* written from a body without its numbers
EpStores ==
    {Absent,
     File(<<EpLine(1, 1, 1, EpStale)>>),
     File(<<EpLine(1, 1, 1, EpStale), EpLine(1, 2, 1, EpStale)>>),
     File(<<EpLine(1, 1, 1, EpRecent), EpLine(1, 1, 2, EpRecent)>>),
     File(<<EpLine(1, NoId, NoId, EpRecent), EpLine(1, 2, 1, EpStale)>>)}

\* _project_episode: series_id is the target's, season_number and
\* episode_number are the body's
ProjectEpisode(body, sid) ==
    EpLine(sid, body.season_number, body.episode_number, body.air_date)

EpFutNew == [st |-> "new", res |-> "-", body |-> EpBody(NoId, NoId, DNone)]

\* _scan_existing
EpScanExisting(file) ==
    IF ~file.ex THEN [existing_keys |-> {}, kept_lines |-> 0]
    ELSE LET good == {i \in 1..Len(file.lines) :
                         /\ file.lines[i].series_id # NoId
                         /\ file.lines[i].season_number # NoId
                         /\ file.lines[i].episode_number # NoId}
         IN [existing_keys |-> {EpKey(file.lines[i]) : i \in good},
             kept_lines |-> Cardinality(good)]

\* _fetch_season_listing: the (episode_number, air_date) pairs of the
\* body's episodes whose episode_number is an integer; air_date is kept
\* when it is a string; nothing when the request returned None, after a
\* failure or for the body null.
FetchSeasonListing(outcome) ==
    IF outcome.kind # "data" THEN <<>>
    ELSE LET keep == SelectSeq(outcome.body, LAMBDA e : e.episode_number # NoId)
         IN [j \in 1..Len(keep) |->
                EpEntry(keep[j].episode_number,
                        IF keep[j].air_date.kind \in {"str", "junk"}
                        THEN keep[j].air_date ELSE DNone)]

\* run, step 3, the inner loop over one listing
RECURSIVE DiscoverFrom(_, _, _, _, _, _)
DiscoverFrom(listing, j, pair, existing, today, acc) ==
    IF j > Len(listing) THEN acc
    ELSE LET key == <<pair[1], pair[2], listing[j].episode_number>>
             t   == EpisodeTarget(key \in existing, listing[j].air_date, today)
         IN IF t = "none" \/ key \in acc.seen_targets
            THEN DiscoverFrom(listing, j + 1, pair, existing, today, acc)
            ELSE DiscoverFrom(listing, j + 1, pair, existing, today,
                   [targets |-> Append(acc.targets, key),
                    seen_targets |-> acc.seen_targets \cup {key},
                    will_add |-> acc.will_add + (IF t = "add" THEN 1 ELSE 0),
                    will_update |-> acc.will_update + (IF t = "update" THEN 1 ELSE 0)])

\* run, steps 1 and 2
EpStart(file) ==
    /\ ep.st = "idle"
    /\ LET s == EpScanExisting(file)
       IN ep' = [st |-> "discover", pre |-> file, store |-> file, tmp |-> Absent,
                 existing_keys |-> s.existing_keys, kept_lines |-> s.kept_lines,
                 k |-> 1, listings |-> <<>>, failed |-> {},
                 acc |-> [targets |-> <<>>, seen_targets |-> {},
                          will_add |-> 0, will_update |-> 0],
                 it |-> 0, copied_existing |-> 0, fut |-> <<>>, done |-> {},
                 processed |-> 0, ok |-> 0, added |-> 0, updated |-> 0,
                 errors |-> 0, seen_errors |-> 0]
    /\ UNCHANGED <<runVars, rq, sc, rl, rb, wp, pj, rv, cr, lc, mg, ct, sg, pl>>

\* run, step 3, one turn of the loop over pairs
EpListing(outcome) ==
    /\ ep.st = "discover"
    /\ ep.k <= Len(EpPairs)
    /\ outcome \in ListingOutcomes(ep.k)
    /\ LET listing == FetchSeasonListing(outcome)
       IN ep' = IF outcome.kind = "exit" THEN [ep EXCEPT !.st = "exited"]
                ELSE [ep EXCEPT
                        !.k = @ + 1,
                        !.listings = Append(@, listing),
                        !.failed = IF outcome.kind = "none" THEN @ \cup {EpPairs[ep.k]} ELSE @,
                        !.errors = IF outcome.kind = "none" THEN @ + 1 ELSE @,
                        !.acc = DiscoverFrom(listing, 1, EpPairs[ep.k],
                                             ep.existing_keys, AirToday, @)]
    /\ UNCHANGED <<runVars, rq, sc, rl, rb, wp, pj, rv, cr, lc, mg, ct, sg, pl>>

\* run, step 4: nothing to process, the store is renamed away and back
EpNoop ==
    /\ ep.st = "discover"
    /\ ep.k > Len(EpPairs)
    /\ Len(ep.acc.targets) = 0
    /\ ep' = [ep EXCEPT !.st = "done"]
    /\ UNCHANGED <<runVars, rq, sc, rl, rb, wp, pj, rv, cr, lc, mg, ct, sg, pl>>

\* run, step 5: the lines whose key is not a target go to the temp file
EpCopy ==
    /\ ep.st = "discover"
    /\ ep.k > Len(EpPairs)
    /\ Len(ep.acc.targets) > 0
    /\ LET kept == SelectSeq(ep.store.lines,
                             LAMBDA ln : ~(/\ ln.series_id # NoId
                                           /\ ln.season_number # NoId
                                           /\ ln.episode_number # NoId
                                           /\ EpKey(ln) \in ep.acc.seen_targets))
       IN ep' = [ep EXCEPT !.st = "prime", !.tmp = File(kept),
                           !.copied_existing = Len(kept),
                           !.fut = [i \in 1..Len(ep.acc.targets) |-> EpFutNew]]
    /\ UNCHANGED <<runVars, rq, sc, rl, rb, wp, pj, rv, cr, lc, mg, ct, sg, pl>>

\* run, step 6, priming: one turn of the loop submits one target
EpPrime ==
    /\ ep.st = "prime"
    /\ LET n == Min(MAX_IN_FLIGHT, Len(ep.acc.targets))
       IN ep' = IF ep.it < n
                THEN [ep EXCEPT !.it = @ + 1, !.fut[ep.it + 1].st = "running",
                                !.st = IF ep.it + 1 < n THEN "prime" ELSE "wait"]
                ELSE [ep EXCEPT !.st = "wait"]
    /\ UNCHANGED <<runVars, rq, sc, rl, rb, wp, pj, rv, cr, lc, mg, ct, sg, pl>>

\* _fetch_episode_details in a pool thread: the request of target i is
\* answered. An error is counted before tmdb_request returns None on a
\* failure; for a 200 whose body is null it returns None at once, nothing
\* counted, and the future is done. The pool threads go on after the main
\* thread has raised SystemExit out of the loop, since leaving
\* "with ThreadPoolExecutor" waits for the calls in flight.
EpWorker(i, outcome) ==
    /\ ep.st \in {"prime", "wait", "process", "exited"}
    /\ i \in 1..Len(ep.fut)
    /\ ep.fut[i].st = "running"
    /\ outcome \in EpisodeOutcomes(ep.acc.targets[i])
    /\ ep' = IF outcome.kind = "none"
             THEN [ep EXCEPT !.fut[i] = [EpFutNew EXCEPT !.st = "returning", !.res = "none"],
                             !.errors = @ + 1]
             ELSE IF outcome.kind = "null"
             THEN [ep EXCEPT !.fut[i] = [EpFutNew EXCEPT !.st = "finished", !.res = "none"]]
             ELSE IF outcome.kind = "exit"
             THEN [ep EXCEPT !.fut[i] = [EpFutNew EXCEPT !.st = "finished", !.res = "exit"]]
             ELSE [ep EXCEPT !.fut[i] = [st |-> "finished", res |-> "data",
                                         body |-> outcome.body]]
    /\ UNCHANGED <<runVars, rq, sc, rl, rb, wp, pj, rv, cr, lc, mg, ct, sg, pl>>

\* tmdb_request returns None after the count: the future completes
EpWorkerReturn(i) ==
    /\ ep.st \in {"prime", "wait", "process", "exited"}
    /\ i \in 1..Len(ep.fut)
    /\ ep.fut[i].st = "returning"
    /\ ep' = [ep EXCEPT !.fut[i].st = "finished"]
    /\ UNCHANGED <<runVars, rq, sc, rl, rb, wp, pj, rv, cr, lc, mg, ct, sg, pl>>

EpFinished == {i \in 1..Len(ep.fut) : ep.fut[i].st = "finished"}
EpOutstanding ==
    {i \in 1..Len(ep.fut) : ep.fut[i].st \in {"running", "returning", "finished"}}

\* wait(futures, FIRST_COMPLETED) returns the futures that are done
EpWait ==
    /\ ep.st = "wait"
    /\ EpFinished # {}
    /\ ep' = [ep EXCEPT !.st = "process", !.done = EpFinished]
    /\ UNCHANGED <<runVars, rq, sc, rl, rb, wp, pj, rv, cr, lc, mg, ct, sg, pl>>

\* the body of "for fut in done" for one future: fut.result() raises
\* SystemExit, or the line is written, the counters are set and the next
\* target is submitted
EpProcess(i) ==
    /\ ep.st = "process"
    /\ i \in ep.done
    /\ LET f      == ep.fut[i]
           isData == f.res = "data"
           upd    == isData /\ ep.acc.targets[i] \in ep.existing_keys
           add    == isData /\ ep.acc.targets[i] \notin ep.existing_keys
           more   == ep.it < Len(ep.acc.targets)
       IN ep' = IF f.res = "exit" THEN [ep EXCEPT !.st = "exited"]
                ELSE [ep EXCEPT
                        !.tmp = IF isData
                                THEN File(Append(ep.tmp.lines,
                                        ProjectEpisode(f.body, ep.acc.targets[i][1])))
                                ELSE @,
                        !.processed = @ + 1,
                        !.ok = IF isData THEN @ + 1 ELSE @,
                        !.updated = IF upd THEN @ + 1 ELSE @,
                        !.added = IF add THEN @ + 1 ELSE @,
                        !.seen_errors = ep.errors,
                        !.fut = [j \in 1..Len(ep.fut) |->
                                   IF j = i THEN [ep.fut[j] EXCEPT !.st = "processed"]
                                   ELSE IF more /\ j = ep.it + 1
                                   THEN [ep.fut[j] EXCEPT !.st = "running"]
                                   ELSE ep.fut[j]],
                        !.it = IF more THEN @ + 1 ELSE @,
                        !.done = @ \ {i},
                        !.st = IF ep.done \ {i} = {} THEN "wait" ELSE "process"]
    /\ UNCHANGED <<runVars, rq, sc, rl, rb, wp, pj, rv, cr, lc, mg, ct, sg, pl>>

\* "while futures" ends and, step 7, tmp_path.replace(output_path)
EpSwap ==
    /\ ep.st = "wait"
    /\ EpOutstanding = {}
    /\ ep' = [ep EXCEPT !.st = "done", !.store = ep.tmp, !.tmp = Absent]
    /\ UNCHANGED <<runVars, rq, sc, rl, rb, wp, pj, rv, cr, lc, mg, ct, sg, pl>>

EpisodesNext ==
    \/ \E file \in EpStores : EpStart(file)
    \/ \E outcome \in ListingOutcomes(1) : EpListing(outcome)
    \/ EpNoop
    \/ EpCopy
    \/ EpPrime
    \/ \E i \in 1..(Len(EpPairs) * MaxListing) :
          \E outcome \in EpisodeOutcomes(<<1, 1, 1>>) \cup EpisodeOutcomes(<<1, 1, 2>>)
                           \cup EpisodeOutcomes(<<1, 2, 1>>) \cup EpisodeOutcomes(<<1, 2, 2>>) :
             EpWorker(i, outcome)
    \/ \E i \in 1..(Len(EpPairs) * MaxListing) : EpWorkerReturn(i)
    \/ EpWait
    \/ \E i \in 1..(Len(EpPairs) * MaxListing) : EpProcess(i)
    \/ EpSwap

SpecEpisodes == Init /\ [][EpisodesNext]_vars


(***************************************************************************)
(* Vocabulary of the properties                                            *)
(***************************************************************************)
\* the keys the scan and the copy read: the integers under id_field
IdsOf(lines) == {lines[i].id : i \in 1..Len(lines)} \ {NoId}
IdCount(lines, k) == Cardinality({i \in 1..Len(lines) : lines[i].id = k})
\* the entity a line describes, wherever its projection put the key
EntityKey(ln) == IF ln.id # NoId THEN ln.id ELSE ln.cid
EntityCount(lines, k) ==
    Cardinality({i \in 1..Len(lines) : EntityKey(lines[i]) = k})
FreshCount(lines) == Cardinality({i \in 1..Len(lines) : lines[i].fresh})
StaleCount(lines) == Cardinality({i \in 1..Len(lines) : ~lines[i].fresh})
TargetSet == Range(targets)
Succeeded == {k \in TargetSet : fut[k].res = "data"}
\* the targets whose request returned None
Failed == {k \in TargetSet : fut[k].res = "none"}
\* those of them whose request failed: it was answered a terminal status or
\* used up its attempts; the others were answered 200 with the body null
FailedRequests == {k \in Failed : fut[k].cat # "-"}
LastLog == log[Len(log)]

\* C1: after a successful run no two lines of the store describe the same
\* identity key, for every fetcher class.
C1_KeyUniqueness ==
    pc = "done" => \A k \in Keys : EntityCount(store.lines, k) <= 1

\* C2: when the process is killed, at whatever point, the store path holds
\* the complete pre-run content or the complete post-run content.
C2_AtomicUnderKill ==
    pc = "killed" => (store = pre \/ (obs.swapped /\ store.ex))

\* C3 as stated: every key of the pre-run store is on exactly one line of
\* the post-run store.
C3_EveryPreKeyOnce ==
    pc = "done" => \A k \in IdsOf(pre.lines) : IdCount(store.lines, k) = 1

\* C3 as amended: every key of the pre-run store is on exactly one line of
\* the post-run store, that line being its old line unchanged when the key
\* was no target and the freshly fetched record when it was a target whose
\* fetch succeeded; the key of a target whose fetch failed is on no line.
C3_PreKeysKeptReplacedOrDropped ==
    pc = "done" =>
      \A k \in IdsOf(pre.lines) :
        IF k \in Failed
        THEN IdCount(store.lines, k) = 0
        ELSE /\ IdCount(store.lines, k) = 1
             /\ \A i \in 1..Len(store.lines) :
                  store.lines[i].id = k =>
                    IF k \in TargetSet
                    THEN store.lines[i] = Line(k, NoId, fut[k].date, TRUE)
                    ELSE InSeq(store.lines[i], pre.lines)

C3_Witness ==
    /\ pc = "done"
    /\ \E k \in IdsOf(pre.lines) : k \in Succeeded
    /\ \E k \in IdsOf(pre.lines) : k \notin TargetSet
    /\ obs.swapped

C5_Conservation ==
    pc = "done" =>
      /\ LastLog.total = StaleCount(store.lines) + FreshCount(store.lines)
      /\ obs.swapped => /\ copied_existing = StaleCount(store.lines)
                        /\ ok = FreshCount(store.lines)
      /\ FreshCount(store.lines) = LastLog.added + LastLog.updated
      /\ LastLog.updated = Cardinality(Succeeded \cap IdsOf(pre.lines))
      /\ LastLog.added = Cardinality(Succeeded \ IdsOf(pre.lines))

C5_Witness ==
    /\ pc = "done" /\ obs.swapped
    /\ LastLog.added = 1 /\ LastLog.updated = 1 /\ LastLog.total = 2

(***************************************************************************)
(* C6, on the calendar itself: a day is within the window when stepping    *)
(* forward from it day by day reaches today in at most window_days steps.  *)
(***************************************************************************)
MonthLengths == <<31, 28, 31, 30, 31, 30, 31, 31, 30, 31, 30, 31>>
CalendarLen(y, m) ==
    IF m = 2 /\ (y % 4 = 0) /\ (y % 100 # 0 \/ y % 400 = 0) THEN 29
    ELSE MonthLengths[m]
RealDay(v) ==
    v.kind = "str" /\ v.y >= 1 /\ v.m \in 1..12 /\ v.d \in 1..CalendarLen(v.y, v.m)
DayAfter(v) ==
    IF v.d < CalendarLen(v.y, v.m) THEN DStr(v.y, v.m, v.d + 1)
    ELSE IF v.m < 12 THEN DStr(v.y, v.m + 1, 1)
    ELSE DStr(v.y + 1, 1, 1)
RECURSIVE ReachedWithin(_, _, _)
ReachedWithin(v, today, n) ==
    IF v = today THEN TRUE
    ELSE IF n = 0 THEN FALSE
    ELSE ReachedWithin(DayAfter(v), today, n - 1)
DueByCalendar(v, today, n) == RealDay(v) /\ ReachedWithin(v, today, n)

\* C6: under a time window, a key is flagged refresh-due iff a record of it
\* has a date that parses and lies in [today - window_days, today], both
\* ends included; a missing, non-string or unparseable date is never due.
C6_RefreshWindow ==
    (sc.st = "out" /\ sc.window # NoWindow) =>
      \A k \in Keys :
        k \in sc.out.refresh_ids <=>
          \E i \in 1..Len(sc.lines) :
            /\ sc.lines[i].id = k
            /\ DueByCalendar(sc.lines[i].date, sc.today, sc.window)

C6_Witness ==
    /\ sc.st = "out"
    /\ sc.today = DStr(2024, 3, 1) /\ sc.window = WINDOW_DAYS
    /\ sc.lines = <<Line(1, NoId, DStr(2024, 1, 31), FALSE)>>
    /\ sc.out.refresh_ids = {1}

\* C7 as stated: after a 429 whose Retry-After is d seconds, the next
\* attempt is issued no sooner than d seconds later, for every d.
C7_HintHonoured ==
    (rq.st # "idle" /\ rq.prevHint.kind = "secs") =>
        rq.gap >= rq.prevHint.s * 1000

\* C7 as amended: after a 429 whose Retry-After is d seconds, the next
\* attempt is issued no sooner than min(d, MAX_BACKOFF_SECONDS) seconds later.
C7_HintHonouredUpToCap ==
    (rq.st # "idle" /\ rq.prevHint.kind = "secs") =>
        rq.gap >= Min(rq.prevHint.s * 1000, MAX_BACKOFF_MS)

C7_Witness ==
    /\ rq.st # "idle"
    /\ rq.prevHint = HSecs(2)
    /\ rq.calls >= 2
    /\ rq.gap >= 2000

ExhaustedCategory(resp) ==
    IF resp = "429" THEN "HTTP_429_exceeded_retries" ELSE resp
\* the last attempt of the budget has been made and has failed transiently
BudgetExhausted ==
    /\ rq.calls = MAX_RETRIES_PER_ID
    /\ rq.last \in {"429", "URLError", "Exception"}

\* C8: all transient failures of one request draw on one budget: never more
\* than MAX_RETRIES_PER_ID attempts; when the budget is exhausted the
\* request returns None, has incremented the one matching exhausted counter
\* once, and makes no further attempt.
C8_RetryBudget ==
    rq.st # "idle" =>
      /\ rq.calls <= MAX_RETRIES_PER_ID
      /\ BudgetExhausted =>
            /\ rq.st = "none"
            /\ Total(rq.cnt) = 1
            /\ rq.cnt[ExhaustedCategory(rq.last)] = 1

\* What tmdb_request does keep: never more than MAX_RETRIES_PER_ID
\* attempts, none after the last of them; a request that ends on a
\* transient failure either raises, nothing counted, or has used up the
\* budget, returns None and has counted once.
RetryBudgetKept ==
    rq.st # "idle" =>
      /\ rq.calls <= MAX_RETRIES_PER_ID
      /\ rq.calls = MAX_RETRIES_PER_ID => rq.st # "run"
      /\ (rq.last \in {"429", "URLError", "Exception"} /\ rq.st # "run") =>
            /\ rq.st \in {"none", "raised"}
            /\ rq.st = "raised" => rq.last = "429" /\ Total(rq.cnt) = 0
            /\ rq.st = "none" =>
                 /\ rq.calls = MAX_RETRIES_PER_ID
                 /\ Total(rq.cnt) = 1
                 /\ rq.cnt[ExhaustedCategory(rq.last)] = 1

\* C9: a 404, and any HTTP error status other than 401 and 429, ends the
\* request: it returns None, the matching counter is incremented exactly
\* once, no attempt follows; when it answers the first attempt, that attempt
\* is the only one.
TerminalCategory(resp) == IF resp = "404" THEN "404" ELSE "HTTP_500"
C9_TerminalStatus ==
    rq.st # "idle" =>
      /\ rq.last \in {"404", "500"} =>
            /\ rq.st = "none"
            /\ Total(rq.cnt) = 1
            /\ rq.cnt[TerminalCategory(rq.last)] = 1
      /\ rq.first \in {"404", "500"} => rq.calls = 1

C9_Witness ==
    /\ rq.st = "none"
    /\ rq.first = "404"
    /\ rq.calls = 1
    /\ rq.cnt["404"] = 1

\* C10: once a request has received 401, no network request is started and
\* no target is dispatched.
C10_NothingAfter401 == ~obs.reqAfter401 /\ ~obs.dispAfter401

\* grants made at the ticks of the window [t, t + LimPer)
RECURSIVE GrantsIn(_, _)
GrantsIn(t, n) ==
    IF n = 0 THEN 0
    ELSE (IF t \in Ticks THEN rl.grants[t] ELSE 0) + GrantsIn(t + 1, n - 1)

\* C11: whatever the number of threads calling acquire() on one limiter, at
\* most rate acquisitions are granted in any window of length per, and the
\* deque of timestamps never holds more than rate entries.
C11_RateBound ==
    rl.st = "on" =>
      /\ Len(rl.dq) <= LimRate
      /\ \A t \in Ticks : GrantsIn(t, LimPer) <= LimRate

C11_Witness ==
    /\ rl.st = "on"
    /\ Len(rl.dq) = LimRate
    /\ \E t \in Threads : rl.th[t].at = "sleep"
    /\ \E t \in Ticks : t >= LimPer /\ rl.grants[t] > 0 /\ GrantsIn(t - LimPer + 1, LimPer) = LimRate

Submitted == {k \in PoolKeys : fut[k].st # "new"}

\* C12: the requests submitted and not yet processed never number more than
\* MAX_IN_FLIGHT; while the scheduler loop runs and targets are pending,
\* they number exactly MAX_IN_FLIGHT, one target having been submitted for
\* each request processed; the targets submitted are the first `it` ones.
C12_SlidingWindow ==
    /\ Cardinality(Outstanding) <= MAX_IN_FLIGHT
    /\ (pc \in {"wait", "process"} /\ it < Len(targets)) =>
          Cardinality(Outstanding) = MAX_IN_FLIGHT
    /\ pc \in {"wait", "process"} =>
          /\ Submitted = {targets[i] : i \in 1..it}
          /\ it = Min(Len(targets), MAX_IN_FLIGHT + progress.processed)

C12_Witness ==
    /\ pc = "wait"
    /\ Len(targets) > MAX_IN_FLIGHT
    /\ it = MAX_IN_FLIGHT + 1
    /\ progress.processed = 1
    /\ Cardinality(Outstanding) = MAX_IN_FLIGHT
    /\ fut[targets[it]].st = "queued"

\* the lifecycle of a future: new (PENDING), queued, running or returning
\* (IN_FLIGHT), finished with its outcome, processed by the main thread
NextOf(a) ==
    CASE a = "new" -> {"queued"}
      [] a = "queued" -> {"running"}
      [] a = "running" -> {"returning", "finished"}
      [] a = "returning" -> {"finished"}
      [] a = "finished" -> {"processed"}
      [] OTHER -> {}
TerminalCats == {"404", "HTTP_500"}
ExhaustedCats == {"HTTP_429_exceeded_retries", "URLError", "Exception"}
QueuedAt(k) == {i \in 1..Len(queue) : queue[i] = k}
LifecycleState ==
    /\ \A k \in PoolKeys :
          /\ Cardinality(QueuedAt(k)) = (IF fut[k].st = "queued" THEN 1 ELSE 0)
          /\ attempts[k] > 0 => fut[k].st = "running"
          /\ fut[k].st # "new" => k \in Range(targets)
          /\ fut[k].res = "none" => fut[k].cat \in TerminalCats \cup ExhaustedCats
    /\ (pc = "done" /\ obs.swapped) =>
          \A k \in Range(targets) :
             /\ fut[k].st = "processed"
             /\ fut[k].res \in {"data", "none"}
LifecycleStep ==
    (~Stopped /\ pc' # "killed") =>
       \A k \in PoolKeys :
          /\ fut'[k].st \in {fut[k].st} \cup NextOf(fut[k].st)
          /\ fut[k].st \in {"returning", "finished", "processed"}
                => fut'[k].res = fut[k].res

FreshKeys(lines) == {EntityKey(lines[i]) : i \in {j \in 1..Len(lines) : lines[j].fresh}}
SwapStep == ~obs.swapped /\ obs'.swapped

\* C14: the step that renames the temp file over the store is taken only
\* when every target of the run has been submitted, attempted and processed,
\* the temp file holding a fresh record for exactly the targets that
\* succeeded; until that step the store is as the run found it.
C14_SwapAfterAllProcessed ==
    /\ [](( ~Stopped /\ targets # <<>> /\ ~obs.swapped) => store = pre)
    /\ [][SwapStep =>
            /\ it = Len(targets) /\ queue = <<>>
            /\ \A k \in Range(targets) :
                  fut[k].st = "processed" /\ fut[k].res \in {"data", "none"}
            /\ FreshKeys(tmp.lines) = Succeeded
            /\ store' = tmp]_vars

C14_Witness ==
    /\ pc = "log" /\ obs.swapped
    /\ Len(targets) = 2
    /\ Cardinality(Succeeded) = 1 /\ Cardinality(Failed) = 1
    /\ FreshKeys(store.lines) = Succeeded

NewKeys == Range(ids) \ IdsOf(pre.lines)
DueKeys ==
    {k \in IdsOf(pre.lines) :
        \E i \in 1..Len(pre.lines) :
            /\ pre.lines[i].id = k
            /\ DueByCalendar(pre.lines[i].date, Today, Window(cfg))}

\* C15: the work list of a run is the candidates absent from the store
\* together with the stored keys the refresh policy flags, each key once;
\* the estimates set before work starts are added = new keys, updated =
\* refresh-due keys, total = added + updated = number of targets.
C15_TargetSet ==
    pc \in {"copy", "prime", "noop_move"} =>
      /\ Range(targets) = NewKeys \cup DueKeys
      /\ \A i, j \in 1..Len(targets) : i # j => targets[i] # targets[j]
      /\ progress.added = Cardinality(NewKeys)
      /\ progress.updated = Cardinality(DueKeys)
      /\ progress.added + progress.updated = Len(targets)
      /\ progress.total = Len(targets)

C15_Witness ==
    /\ pc = "copy"
    /\ Cardinality(NewKeys) = 1 /\ Cardinality(DueKeys) = 1
    /\ Len(targets) = 2
    /\ progress.added = 1 /\ progress.updated = 1

\* Scenario A, key 100 being 1 and key 101 being 2: the store holds one
\* record, of key 1, dated outside the refresh window; the candidates are 1, 2
ScenarioA ==
    /\ pre.ex /\ Len(pre.lines) = 1
    /\ pre.lines[1].id = 1
    /\ ~DueByCalendar(pre.lines[1].date, Today, Window(cfg))
    /\ ids = <<1, 2>>

\* C16: in Scenario A only key 2 is a target; when its fetch succeeds the
\* run ends with the line of key 1 unchanged followed by the record of
\* key 2, and logs added = 1, updated = 0, total = 2.
C16_ScenarioA ==
    ScenarioA =>
      /\ targets = <<2>>
      /\ fut[1].st = "new"
      /\ (pc = "done" /\ fut[2].res = "data") =>
            /\ store = File(<<pre.lines[1], Line(2, NoId, fut[2].date, TRUE)>>)
            /\ LastLog.added = 1 /\ LastLog.updated = 0 /\ LastLog.total = 2

C16_Witness ==
    /\ ScenarioA
    /\ pc = "done" /\ fut[2].res = "data"
    /\ Len(store.lines) = 2

Occurrences(q, x) == Cardinality({i \in 1..Len(q) : q[i] = x})
SameLines(a, b) ==
    \A x \in Range(a) \cup Range(b) : Occurrences(a, x) = Occurrences(b, x)

\* C17: a full-rebuild fetcher run twice on the same upstream responses
\* leaves, after the second run, a store with the same lines, each as many
\* times, as after the first run.
C17_RebuildIdempotent ==
    rb.st = "done" => SameLines(rb.store.lines, rb.first)

C17_Witness ==
    /\ rb.st = "done"
    /\ rb.kind = "genres"
    /\ Len(rb.store.lines) >= 3
    /\ rb.store.lines # rb.first
    /\ ~rb.tmp.ex

\* the windows of the refresh policy, in days, by status
WindowOfStatus(st) ==
    IF st = StStr("In Production") THEN 30
    ELSE IF st \in {StStr("Pilot"), StStr("Planned")} THEN 90
    ELSE IF st = StStr("Canceled") THEN 365
    ELSE IF st = StStr("Ended") THEN 180
    ELSE 60
\* days from the day v to the day today, walking the calendar month by month
NotAfter(v, today) ==
    \/ v.y < today.y
    \/ v.y = today.y /\ v.m < today.m
    \/ v.y = today.y /\ v.m = today.m /\ v.d <= today.d
RECURSIVE DaysUntil(_, _)
DaysUntil(v, today) ==
    IF v.y = today.y /\ v.m = today.m THEN today.d - v.d
    ELSE (CalendarLen(v.y, v.m) - v.d + 1)
         + DaysUntil(IF v.m < 12 THEN DStr(v.y, v.m + 1, 1) ELSE DStr(v.y + 1, 1, 1),
                     today)
DueWithin(v, today, n) ==
    RealDay(v) /\ NotAfter(v, today) /\ DaysUntil(v, today) <= n
DueByStatus(ln, today) ==
    \/ ln.status = StStr("Returning Series")
    \/ DueWithin(ln.lad, today, WindowOfStatus(ln.status))

\* C18: in the status-keyed scan a key is flagged refresh-due iff one of
\* its records has status Returning Series, whatever its last_air_date, or
\* has a last_air_date that parses and lies within the window of its status,
\* both ends included, the window being 60 days for an unmapped, empty or
\* missing status; a record with no last_air_date is due only in the
\* first case.
C18_StatusPolicy ==
    sc.st = "status" =>
      \A k \in Keys :
        k \in sc.out.refresh_ids <=>
          \E i \in 1..Len(sc.lines) :
            sc.lines[i].id = k /\ DueByStatus(sc.lines[i], sc.today)

C18_Witness ==
    /\ sc.st = "status"
    /\ sc.lines = <<SLine(1, StStr("Returning Series"), DNone)>>
    /\ sc.out.refresh_ids = {1}

IsStale(ln) == ~ln.fresh
NotATarget(ln) == ln.id \notin Range(targets)
RetainedOfPre == SelectSeq(pre.lines, NotATarget)

\* C19: the lines of the pre-run store whose key is not a target are in the
\* temp file, and after the run in the store, unchanged and in their
\* original order, ahead of the fetched records; a run without targets
\* leaves the store as it was.
C19_RetainedUntouched ==
    /\ pc \in {"prime", "wait", "process", "swap"} =>
          SelectSeq(tmp.lines, IsStale) = RetainedOfPre
    /\ pc = "done" =>
          /\ SelectSeq(store.lines, IsStale) = RetainedOfPre
          /\ SubSeq(store.lines, 1, Len(RetainedOfPre)) = RetainedOfPre
          /\ targets = <<>> => store = pre

C19_Witness ==
    /\ pc = "done" /\ obs.swapped
    /\ Len(RetainedOfPre) = 2
    /\ RetainedOfPre[1] # RetainedOfPre[2]
    /\ Len(store.lines) = 3

\* the targets of the providers run that left no line in the store
WpUnstored == {k \in Range(wp.targets) : k \notin WpIdsOf(wp.store.lines)}

\* C20: at the end of every run, each target that did not produce a stored
\* record has incremented the error counters exactly once, so that
\* processed = ok + total errors, and the summary line carries the counters.
C20_NothingDroppedUncounted ==
    (wp.st = "done" /\ wp.targets # <<>>) =>
        /\ \A k \in WpUnstored : wp.fut[k].cnt = 1
        /\ wp.processed = wp.ok + Total(wp.errors)
        /\ wp.log[1].errors = wp.errors

\* The accounting TMDBFetcher.run does keep, one record per successful
\* target: a target is counted once exactly when its request failed, and
\* the targets that are neither stored nor counted are those answered 200
\* with the body null.
RunCountsEveryDrop ==
    (pc = "done" /\ obs.swapped) =>
        /\ \A k \in Range(targets) :
              counted[k] = (IF k \in FailedRequests THEN 1 ELSE 0)
        /\ progress.processed = ok + Total(errors)
                                 + Cardinality(Failed \ FailedRequests)
        /\ progress.processed = Len(targets)
        /\ LastLog.errors = errors

\* The counting the providers run does keep: a target is counted once
\* exactly when its request returned None, and the targets that are neither
\* stored nor counted are those whose answer held no usable offer.
ProvidersCountEveryFailure ==
    (wp.st = "done" /\ wp.targets # <<>>) =>
        /\ \A k \in Range(wp.targets) : wp.fut[k].cnt <= 1
        /\ Total(wp.errors) = Cardinality({k \in Range(wp.targets) : wp.fut[k].cnt = 1})
        /\ wp.processed = Len(wp.targets)
        /\ wp.processed = wp.ok + Total(wp.errors)
                          + Cardinality({k \in WpUnstored : wp.fut[k].cnt = 0})
        /\ wp.log[1].errors = wp.errors

\* C21: a failure confined to one key never aborts the run: a run ends only
\* by its swap with every target processed, or by the exit a 401 causes.
C21_PerKeyFailuresLocal ==
    /\ rv.st = "done" =>
          /\ \A k \in Range(rv.targets) : rv.fut[k].st = "processed"
          /\ rv.store.ex
    /\ rv.st \in {"crashed", "exited"} =>
          \E k \in Range(rv.targets) : rv.fut[k].res = "exit"

\* What the run does keep: a 404, another HTTP status, an exhausted 429, a
\* network error or an undecodable body leaves the run running, and a run
\* that swaps has processed every target.
FailuresThatStayLocal ==
    /\ rv.st = "done" =>
          /\ \A k \in Range(rv.targets) : rv.fut[k].st = "processed"
          /\ rv.store.ex
          /\ rv.processed = Len(rv.targets)
    /\ rv.st = "crashed" =>
          \E k \in Range(rv.targets) :
              \/ rv.fut[k].res = "raised"
              \/ rv.fut[k].res = "data" /\ ProjectReviews(rv.fut[k].body).raised

\* C24: project_fields returns a record for every decoded body and never
\* raises.
C24_ProjectorTotal ==
    (pj.st = "out" /\ pj.fn \in {"reviews", "release_dates", "credits"}) =>
        ~pj.out.raised

\* the process of a run has ended
RunEnded == Stopped /\ pc # "idle"
\* the run has returned from run(), every target processed and one summary
\* line appended
EndedWithSummary ==
    /\ pc = "done"
    /\ Len(log) = 1
    /\ progress.processed = Len(targets)
    /\ \A k \in Range(targets) : fut[k].st = "processed"

\* C22: when every network call returns and no request is answered 401,
\* every run ends; it ends having processed all of its targets and with
\* exactly one summary line appended, in the no-target path as in the
\* normal path, whatever the number of failed fetches; no run appends a
\* second line.
C22_RunEndsWithOneSummary ==
    /\ [](~Stopped => <>Stopped)
    /\ [](RunEnded => EndedWithSummary)
    /\ [](Len(log) <= 1)

\* What the runs do keep: every run ends, and one that returns from run()
\* has processed every target and appended one line.
RunsEnd == [](~Stopped => <>Stopped)
ReturnedRunsLogOnce ==
    /\ pc = "done" => EndedWithSummary
    /\ Len(log) <= 1
\* a run ends without a summary only on an empty input, on an exception a
\* worker raised (a negative Retry-After) or on one project_fields raised
EndsWithoutSummary ==
    (RunEnded /\ pc # "done") =>
        /\ log = <<>>
        /\ \/ pc = "noinput" /\ ids = <<>>
           \/ /\ pc = "crashed"
              /\ \E k \in Range(targets) :
                    \/ fut[k].res = "raised"
                    \/ fut[k].res = "data" /\ ProjectRaises(cfg, fut[k].results)

\* the secrets file holds an entry: an assignment line, not a comment,
\* whose key is TMDB_bearer or TMDB_BEARER
HasEntry(env) ==
    /\ env.ex
    /\ \E i \in 1..Len(env.lines) :
          /\ env.lines[i].kind = "kv"
          /\ env.lines[i].k \in {"TMDB_bearer", "TMDB_BEARER"}

\* C23: when the secrets file is missing or holds no TMDB_bearer/TMDB_BEARER
\* entry, the process exits at the construction of the fetcher: no request
\* is ever issued and neither the store nor the temp file is touched.
C23_CredentialsFirst ==
    (cr.st # "idle" /\ ~HasEntry(cr.env)) =>
        /\ cr.st = "exited"
        /\ cr.requests = 0
        /\ ~cr.touched

C23_Witness ==
    /\ cr.st = "exited"
    /\ cr.env = File(<<EnvComment, EnvKV("tmdb_bearer", "tok")>>)
    /\ cr.requests = 0 /\ ~cr.touched

IsObject(item) == item.kind = "object"
\* the items of the list under a key that are objects, in their order
ObjectItems(v) == IF v.kind = "list" THEN SelectSeq(v.items, IsObject) ELSE <<>>
NullIfAbsent(x) == IF x = "absent" THEN "null" ELSE x
HasAllCastKeys(item) == IsObject(item) /\ \A k \in CastKeys : item.f[k] # "absent"
HasCountryStrings(item) == IsObject(item) /\ \A k \in CountryKeys : item.f[k] = "str"

\* C25 as stated: each projected item holds only the allow-listed sub-keys,
\* an item missing one of them is dropped from the projected list, and an
\* absent top-level field is emitted as null.
C25_MissingSubKeyDropped ==
    (pj.st = "out" /\ pj.fn = "credits" /\ pj.data.kind = "object") =>
        LET kept == IF pj.data.results.kind = "list"
                    THEN SelectSeq(pj.data.results.items, HasAllCastKeys) ELSE <<>>
        IN /\ pj.out.id = NullIfAbsent(pj.data.id)
           /\ Len(pj.out.list) = Len(kept)
           /\ \A i \in 1..Len(pj.out.list) :
                 /\ DOMAIN pj.out.list[i] = CastKeys
                 /\ \A k \in CastKeys : pj.out.list[i][k] = kept[i].f[k]

\* C25, amended, for the two projections the claim is about: an item
\* select_list_of_dicts emits holds exactly the allow-listed sub-keys; it
\* emits one item for every object of the list, an allow-listed sub-key the
\* object lacks being null in it, and none for a value that is not an
\* object; _project_rows of the countries emits the three sub-keys of
\* exactly the objects in which all three are strings; an absent top-level
\* field is emitted as null.
C25_AllowListProjection ==
    /\ (pj.st = "out" /\ pj.fn = "credits" /\ pj.data.kind = "object") =>
          LET objs == ObjectItems(pj.data.results)
          IN /\ pj.out.id = NullIfAbsent(pj.data.id)
             /\ Len(pj.out.list) = Len(objs)
             /\ \A i \in 1..Len(objs) :
                   /\ DOMAIN pj.out.list[i] = CastKeys
                   /\ \A k \in CastKeys : pj.out.list[i][k] = NullIfAbsent(objs[i].f[k])
    /\ (pj.st = "out" /\ pj.fn = "countries") =>
          LET rows == IF pj.data.kind = "list"
                      THEN SelectSeq(pj.data.results.items, HasCountryStrings) ELSE <<>>
          IN /\ Len(pj.out.list) = Len(rows)
             /\ \A i \in 1..Len(rows) :
                   /\ DOMAIN pj.out.list[i] = CountryKeys
                   /\ \A k \in CountryKeys : pj.out.list[i][k] = "str"

C25_Witness ==
    /\ pj.st = "out" /\ pj.fn = "credits"
    /\ pj.data.id = "absent"
    /\ pj.data.results = VList(<<Obj({"credit_id", "id", "name"}, "str"), NotObj("null")>>)
    /\ Len(pj.out.list) = 1
    /\ pj.out.list[1]["character"] = "null"
    /\ pj.out.list[1]["credit_id"] = "str"

Unusable(ln) == ln.kind # "record"
IsNotJson(ln) == ln.kind = "notjson"
IsKeyless(ln) == ln.kind = "keyless"

\* C26: a line of the store that is not a usable record (not JSON, JSON
\* that is not an object, an object without an integer key) never aborts
\* the run, is skipped by the scan and by the copy, and is counted as a
\* warning.
C26_MalformedSkippedAndCounted ==
    /\ lc.st # "crashed"
    /\ lc.st \in {"scanned", "nothing", "copied", "done"} =>
          lc.kept_lines = Len(lc.lines) - Len(SelectSeq(lc.lines, Unusable))
    /\ lc.st = "copied" =>
          /\ SelectSeq(lc.tmp.lines, Unusable) = <<>>
          /\ lc.warnings = Len(SelectSeq(lc.lines, Unusable))

\* What the scan and the copy do with such lines: text that is not JSON is
\* skipped by both; an object without an integer key is skipped by the
\* scan and written by the copy; JSON that is not an object ends the run
\* with an exception; nothing is counted.
LocalRecordsAsHandled ==
    /\ lc.st # "idle" =>
          (lc.st = "crashed" <=> \E i \in 1..Len(lc.lines) : lc.lines[i].kind = "nonobject")
    /\ lc.st \in {"scanned", "nothing", "copied", "done"} =>
          lc.kept_lines = Len(lc.lines) - Len(SelectSeq(lc.lines, Unusable))
    /\ lc.st = "copied" =>
          /\ SelectSeq(lc.tmp.lines, IsNotJson) = <<>>
          /\ SelectSeq(lc.tmp.lines, IsKeyless) = SelectSeq(lc.lines, IsKeyless)
          /\ lc.warnings = 0

\* C29: the total written to the run log is the number of lines the store
\* holds after the run, in the no-target path and in the normal path,
\* whatever lines the pre-run store held.
C29_LoggedTotalIsLineCount ==
    lc.st = "done" => lc.log[1].total = Len(lc.store.lines)

\* The normal path does report the lines of the store: every line that is
\* copied is counted in copied_existing. The no-target path reports the
\* number of usable records, and the store keeps its other lines.
LoggedTotalAsComputed ==
    lc.st = "done" =>
        IF lc.targets # {}
        THEN lc.log[1].total = Len(lc.store.lines)
        ELSE /\ lc.store.lines = lc.lines
             /\ lc.log[1].total = Len(lc.lines) - Len(SelectSeq(lc.lines, Unusable))

\* the integer id of a line of the final file, as the merge reads it
MergedId(ln) == IF ln.kind = "object" /\ ln.t \in {"int", "str", "float"} THEN ln.n ELSE 0
MergedIds(q) == {MergedId(q[i]) : i \in 1..Len(q)} \ {0}
MergedCount(q, k) == Cardinality({i \in 1..Len(q) : MergedId(q[i]) = k})

\* C28: after a merge the final file holds each integer id at most once,
\* whatever duplicates the old final and the source held, and a second
\* merge of the same source adds nothing and leaves the set of ids as it
\* was.
C28_MergeNeverDuplicates ==
    /\ mg.st \in {"merged", "again"} =>
          /\ \A k \in 1..2 : MergedCount(mg.final, k) <= 1
          /\ MergedIds(mg.final) = MergedIds(mg.old) \cup MergedIds(mg.src)
          /\ mg.total = Len(mg.final)
    /\ mg.st = "again" =>
          /\ mg.added = 0
          /\ MergedIds(mg.final) = MergedIds(mg.first)

C28_Witness ==
    /\ mg.st = "again"
    /\ mg.old = <<MObj("int", 1), MObj("str", 1)>>
    /\ mg.src = <<MObj("int", 2), MObj("float", 2)>>
    /\ mg.added1 = 1 /\ mg.added = 0
    /\ Len(mg.final) = 2

\* a day more than a year before today
OlderThanAYear(v, today) ==
    RealDay(v) /\ NotAfter(v, today) /\ DaysUntil(v, today) > 365
\* the lines of the scanned file that carry a key, and the lines of a key
KeyedLines ==
    {i \in 1..Len(sc.lines) :
        sc.lines[i].series_id # NoId /\ sc.lines[i].season_number # NoId}
KeyOfLine(i) == <<sc.lines[i].series_id, sc.lines[i].season_number>>
AloneOnKey(i) == \A j \in KeyedLines : KeyOfLine(j) = KeyOfLine(i) => j = i

\* C30: a stored season or episode whose air_date lies within
\* [today - 60, today] is refresh-due; one whose air_date is more than 365
\* days old is judged with a 180-day window, so it is due iff
\* today - 180 <= air_date <= today (which no such date satisfies); a record
\* whose air_date is missing is not due.
C30_AirDateWindows ==
    /\ sc.st = "season" =>
          \A i \in KeyedLines :
             LET air == sc.lines[i].air_date
                 due == KeyOfLine(i) \in sc.out.refresh_keys
             IN /\ DueWithin(air, sc.today, 60) => due
                /\ (AloneOnKey(i) /\ OlderThanAYear(air, sc.today))
                      => (due <=> DueWithin(air, sc.today, 180))
                /\ (AloneOnKey(i) /\ air = DNone) => ~due
    /\ sc.st = "episode" =>
          /\ DueWithin(sc.air, sc.today, 60) => sc.due
          /\ OlderThanAYear(sc.air, sc.today)
                => (sc.due <=> DueWithin(sc.air, sc.today, 180))
          /\ sc.air = DNone => ~sc.due
          /\ (sc.stored /\ ~sc.due) => sc.target = "none"
\* a stored season aired 366 days ago, alone on its key, was scanned and is
\* not refresh-due
C30_Witness ==
    /\ sc.st = "season"
    /\ \E i \in KeyedLines :
          /\ AloneOnKey(i)
          /\ OlderThanAYear(sc.lines[i].air_date, sc.today)
          /\ DaysUntil(sc.lines[i].air_date, sc.today) = 366
          /\ KeyOfLine(i) \notin sc.out.refresh_keys
\* the scans agree with one 60-day window for every record: the 180-day
\* window of an old record never makes it due
AirDateDueIsSixtyDays ==
    /\ sc.st = "season" =>
          \A i \in KeyedLines :
             AloneOnKey(i) =>
                (KeyOfLine(i) \in sc.out.refresh_keys
                    <=> DueWithin(sc.lines[i].air_date, sc.today, 60))
    /\ sc.st = "episode" => (sc.due <=> DueWithin(sc.air, sc.today, 60))

\* no call is in progress
CountersQuiet == ct.st = "run" /\ \A t \in 1..CountThreads : ct.pc[t] = "idle"
\* the inc calls that have stored their value: all those made, less the
\* ones still before their store
StoredIncs(o, k) ==
    ct.made[o][k]
    - Cardinality({t \in 1..CountThreads :
                      /\ ct.op[t] = [fn |-> "inc", obj |-> o, key |-> k, value |-> 0]
                      /\ ct.pc[t] \in {"want", "locked", "read"}})

\* C27: the shared counters lose no update: whatever the interleaving of
\* the inc calls of several threads, once the calls have returned every
\* entry of ErrorCounter and of ProgressTracker that no set call has
\* overwritten equals the number of inc calls made on it, and total()
\* returns the sum of the categories, which is the number of inc calls
\* whose update is stored.
C27_NoLostUpdate ==
    /\ CountersQuiet =>
          /\ \A o \in CountObjects : \A k \in KeysOf(o) :
                ~ct.was_set[o][k] => ct.val[o][k] = ct.made[o][k]
          /\ SumOver(ct.val["errors"], ErrorKeys) = SumOver(ct.made["errors"], ErrorKeys)
    /\ ct.st = "run" =>
          \A t \in 1..CountThreads :
             (ct.op[t].fn = "total" /\ ct.pc[t] \in {"read", "written"}) =>
                /\ ct.reg[t] = SumOver(ct.val["errors"], ErrorKeys)
                /\ ct.reg[t] = SumOver([k \in ErrorKeys |-> StoredIncs("errors", k)], ErrorKeys)
\* two threads have incremented the same category, one of them having
\* waited for the lock, and a total() has returned 2
C27_Witness ==
    /\ CountersQuiet
    /\ ct.calls = MaxCalls
    /\ ct.val["errors"]["404"] = 2
    /\ ct.last_total = 2
\* the lock of an object is held by at most the thread inside its block,
\* and a thread inside a block holds the lock
CountersMutex ==
    ct.st = "run" =>
       \A t \in 1..CountThreads :
          ct.pc[t] \in {"locked", "read", "written"} => ct.lock[ct.op[t].obj] = t

\* the targets whose future the main thread has taken a result from
CompletedTargets ==
    {k \in PoolKeys : fut[k].st = "processed" /\ fut[k].res \notin {"exit", "raised"}}
NoDuplicate(q) == \A i, j \in 1..Len(q) : q[i] = q[j] => i = j

\* C40: at every point of a run processed <= total and ok <= processed;
\* processed counts the completed targets, one for each; when the run
\* completes processed = total = the number of deduplicated targets.
C40_ProgressInvariant ==
    /\ progress.processed <= progress.total
    /\ progress.ok <= progress.processed
    /\ progress.processed = Cardinality(CompletedTargets)
    /\ pc \notin {"idle", "killed"} =>
          /\ progress.total = Len(targets)
          /\ NoDuplicate(targets)
    /\ pc = "done" => progress.processed = progress.total
\* a run of two targets has completed, one fetched and one failed
C40_Witness ==
    /\ pc = "done"
    /\ Len(targets) = 2
    /\ progress.processed = 2
    /\ progress.ok = 1

\* the responses tmdb_request retries on
Transient == {"429", "URLError", "Exception"}
\* one turn of the loop of a request, seen from outside: the delay before
\* and after it, and the wait it ends with
BackoffStep ==
    /\ (rq.st = "idle" /\ rq'.st = "run") => rq'.backoff = BASE_BACKOFF_MS
    /\ (rq.st = "run" /\ rq' # rq) =>
          /\ rq'.backoff >= rq.backoff
          /\ rq'.backoff <= MAX_BACKOFF_MS
          /\ rq'.backoff # rq.backoff =>
                /\ rq'.last \in Transient
                /\ rq'.backoff >= (15 * rq.backoff) \div 10
                /\ rq'.backoff <= 2 * rq.backoff
          /\ (rq'.st = "run" /\ rq'.last \in Transient) => rq'.backoff > rq.backoff
          /\ rq'.sleep >= 0 /\ rq'.sleep <= MAX_BACKOFF_MS

\* C33: within one request the backoff delay starts at the base delay; a
\* transient failure that is retried multiplies it by a factor between 1.5
\* and 2.0 (to the millisecond); it never decreases and never exceeds
\* MAX_BACKOFF_SECONDS; no wait, taken from the Retry-After header or from
\* the backoff delay, is longer than MAX_BACKOFF_SECONDS.
C33_BackoffBoundedMonotone == [][BackoffStep]_vars
\* a request has failed five times, its delay has grown at each failure,
\* and its last wait, asked as 120 s by the server, was cut to the ceiling
C33_Witness ==
    /\ rq.st = "run"
    /\ rq.attempts = 5
    /\ rq.backoff >= 7 * BASE_BACKOFF_MS
    /\ rq.hint = HSecs(120)
    /\ rq.sleep = MAX_BACKOFF_MS

\* C34: in a run in which a request was answered 401 the temp file is never
\* renamed over the store: from the 401 on, and after the process has
\* exited, the store holds exactly its pre-run content, whatever records
\* the temp file has received.
C34_No401Swap ==
    /\ obs.seen401 => (~obs.swapped /\ store = pre)
    /\ pc = "aborted" => (obs.seen401 /\ store = pre)
\* the process has exited on a 401 after a fetched record was appended to
\* the temp file; the store, which held a record, is as the run found it
C34_Witness ==
    /\ pc = "aborted"
    /\ obs.seen401
    /\ tmp.ex /\ FreshCount(tmp.lines) >= 1
    /\ store.ex /\ Len(store.lines) >= 1
    /\ store = pre /\ store # tmp

\* C35: a run that follows an interrupted run loses no record: its store
\* holds no fresh line but those it fetched itself, and every record the
\* interrupted run found in the store (or had put there) is still in the
\* store, or was a target of the run.
C35_RecoveryLosesNothing ==
    (pc = "done" /\ obs.after_kill) =>
       /\ FreshCount(store.lines) = Cardinality(Succeeded)
       /\ \A i \in 1..Len(obs.before.lines) :
             \/ InSeq(obs.before.lines[i], store.lines)
             \/ obs.before.lines[i].id \in TargetSet
\* what holds of the run after an interrupted one: it is the run the code
\* makes on the store the interrupted process left at the store path
RecoveryFromWhatIsLeft ==
    (pc = "done" /\ obs.after_kill) =>
       /\ FreshCount(store.lines) = Cardinality(Succeeded)
       /\ \A i \in 1..Len(pre.lines) :
             \/ InSeq(pre.lines[i], store.lines)
             \/ pre.lines[i].id \in TargetSet

\* the run in progress has found nothing to do
NoTargetRun == targets = <<>> /\ pc \in {"noop_move", "noop_back", "noop_log", "done"}

\* C32: a run with an empty target set is a no-op on the store: it issues
\* no request for any key, and once it has completed the store holds
\* exactly its pre-run content and the one log line of the run reports
\* added 0 and updated 0.
C32_EmptyTargetNoOp ==
    NoTargetRun =>
       /\ \A k \in PoolKeys : fut[k] = FutNew /\ attempts[k] = 0 /\ counted[k] = 0
       /\ queue = <<>> /\ Total(errors) = 0
       /\ pc = "done" =>
             /\ store = pre
             /\ Len(log) = 1
             /\ LastLog.added = 0 /\ LastLog.updated = 0
\* a run over a store of two records has completed without a target
C32_Witness ==
    /\ pc = "done"
    /\ targets = <<>>
    /\ ids # <<>>
    /\ store.ex /\ Len(store.lines) = 2
    /\ store = pre
    /\ Len(log) = 1

\* what the next run's scan would read in the store as it is now
NextScan == ScanExisting(Unmark(store), Today, Window(cfg))
NextTargets ==
    BuildTargets(ids, NextScan.all_ids, NextScan.refresh_table, Window(cfg)).targets

\* C36: for every fetcher class, the record persisted for a fetched key K
\* carries K under the id_field the scan reads, so the next run's scan
\* reports K as existing; a second run on the same candidates, none of them
\* failed and no stored record refresh-due, has no target.
C36_WrittenRecordsRecognised ==
    pc = "done" =>
       /\ \A k \in Succeeded : k \in NextScan.all_ids
       /\ (Failed = {} /\ NextScan.refresh_ids = {}) => NextTargets = <<>>
\* the base class, whose projection keeps the payload's id, does recognise
\* what it wrote
BaseRecordsRecognised ==
    (pc = "done" /\ cfg = "TMDBFetcher") =>
       /\ \A k \in Succeeded : k \in NextScan.all_ids
       /\ (Failed = {} /\ NextScan.refresh_ids = {}) => NextTargets = <<>>

\* the record of the store that the run wrote for key k
FreshLineOf(k) ==
    store.lines[CHOOSE i \in 1..Len(store.lines) :
                   store.lines[i].id = k /\ store.lines[i].fresh]

\* C37: for every fetcher configured with window_days and date_field, the
\* record persisted for a fetched key carries the upstream value of
\* date_field, and a stored record whose upstream date lies within the
\* window is flagged refresh-due by the next run's scan, hence a target.
C37_WindowEffective ==
    pc = "done" =>
       \A k \in Succeeded :
          /\ FreshLineOf(k).date = fut[k].date
          /\ DueByCalendar(fut[k].date, Today, Window(cfg)) =>
                /\ k \in NextScan.refresh_ids
                /\ InSeq(k, NextTargets)
\* a fetcher that persists the payload as it is has an effective window
BaseWindowEffective ==
    (pc = "done" /\ cfg = "TMDBFetcher") =>
       \A k \in Succeeded :
          /\ FreshLineOf(k).date = fut[k].date
          /\ DueByCalendar(fut[k].date, Today, Window(cfg)) =>
                /\ k \in NextScan.refresh_ids
                /\ InSeq(k, NextTargets)
\* the credits and content-ratings fetchers never flag a record they wrote
DatelessNeverDue ==
    (cfg \in {"MovieCreditsFetcher", "TVSeriesContentRatingsFetcher"}
        /\ pc \notin {"idle", "killed"}) =>
       /\ refresh_ids = {}
       /\ progress.updated = 0

\* the rows a body gives, read off the body: one row per usable element
UsableRows(data) ==
    LET Usable(x) == x.ok
        Row(x) == [unit |-> "-", v |-> x.v]
        good == SelectSeq(data.items, Usable)
    IN [i \in 1..Len(good) |-> Row(good[i])]

\* C38: after a run of a single-call full-rebuild fetcher the store holds
\* exactly the rows projected from that run's response and nothing of the
\* previous store; when the call has failed (tmdb_request returned None)
\* the failure has been counted, once, and the store is an empty file.
C38_RebuildStoreContent ==
    sg.st \in {"log", "done"} =>
       /\ sg.store.ex
       /\ sg.store.lines = ProjectSingle(sg.kind, sg.data).rows
       /\ IF sg.data = RbNone
          THEN Total(sg.errors) = 1 /\ sg.store.lines = <<>>
          ELSE /\ Total(sg.errors) = 0
               /\ sg.data = sg.body
               /\ sg.store.lines =
                     IF (sg.kind = "certifications") = (sg.body.kind = "certs")
                     THEN UsableRows(sg.body) ELSE <<>>
\* What the run does keep: the store is the rows projected from what the
\* call returned, nothing of the previous store, an empty file when the
\* call returned None; a None the request gave up with was counted once,
\* the None of a 200 whose body is null was not counted.
SingleStoreIsProjection ==
    sg.st \in {"log", "done"} =>
       /\ sg.store.ex
       /\ sg.store.lines = ProjectSingle(sg.kind, sg.data).rows
       /\ IF sg.data = RbNone
          THEN /\ sg.store.lines = <<>>
               /\ Total(sg.errors) <= 1
               /\ sg.body # RbNull => Total(sg.errors) = 1
          ELSE /\ Total(sg.errors) = 0
               /\ sg.data = sg.body

(***************************************************************************)
(* C39: pipeline ordering in run_all_scripts.                              *)
(***************************************************************************)
\* <<producer, consumer>>: the consumer's input file is the producer's
\* output file (module docstrings, input_path of the fetchers).
Produces ==
    { <<"Configuration_languages.py", "Genre_series.py">>,
      <<"Configuration_languages.py", "Genre_movies.py">>,
      <<"TVSeries_details.py", "TVSeason_details.py">>,
      <<"TVSeason_details.py", "TVEpisode_details.py">> }

PlActive == pl.st # "idle"

LaunchedBefore(p, c) ==
    \E a, b \in 1..Len(pl.started) :
        a < b /\ pl.started[a] = p /\ pl.started[b] = c

Launched(s) == \E a \in 1..Len(pl.started) : pl.started[a] = s

OrderedAfterProducer(pair) ==
    Launched(pair[2]) => LaunchedBefore(pair[1], pair[2])

\* C39: in a full run of run_all_scripts every launched fetcher was launched
\* after the fetcher that produces its input store (languages before the
\* genre fetchers, TV series details before TV season details before TV
\* episode details), and at most one script runs at a time.
C39_PipelineOrder ==
    PlActive =>
        /\ Cardinality(pl.running) <= 1
        /\ pl.start_idx = 0 => \A pair \in Produces : OrderedAfterProducer(pair)

\* What holds of the ordering: languages before the genre fetchers, season
\* details before episode details, one script at a time.
PipelineOrderExceptSeries ==
    PlActive =>
        /\ Cardinality(pl.running) <= 1
        /\ pl.start_idx = 0 =>
               \A pair \in Produces \ {<<"TVSeries_details.py", "TVSeason_details.py">>} :
                   OrderedAfterProducer(pair)

\* TV season details is always launched with TV series details not yet run.
SeasonBeforeSeries ==
    PlActive /\ Launched("TVSeason_details.py") /\ Launched("TVSeries_details.py")
        => LaunchedBefore("TVSeason_details.py", "TVSeries_details.py")

\* After a script exited non-zero nothing more is launched.
NothingAfterFailure ==
    [][PlActive /\ pl.st = "exit" => pl'.started = pl.started]_vars

\* A script is launched only once every script launched before it returned 0.
LaunchOnlyAfterSuccess ==
    [][PlActive /\ pl'.st = "script" /\ pl.st # "script"
           => pl.st = "loop" /\ pl.running = {} /\ pl.rc = 0]_vars

(***************************************************************************)
(* C31: episode targeting from the season listings.                        *)
(***************************************************************************)
EpKeys == {<<p[1], p[2], en>> : p \in Range(EpPairs), en \in 1..MaxListing}

\* the season listings received so far name the episode of this key
ListedAt(key, k, j) ==
    /\ EpPairs[k] = <<key[1], key[2]>>
    /\ ep.listings[k][j].episode_number = key[3]

Listed(key) ==
    \E k \in 1..Len(ep.listings) : \E j \in 1..Len(ep.listings[k]) : ListedAt(key, k, j)

ListedInWindow(key) ==
    \E k \in 1..Len(ep.listings) : \E j \in 1..Len(ep.listings[k]) :
        /\ ListedAt(key, k, j)
        /\ EpisodeInRefreshWindow(ep.listings[k][j].air_date, AirToday)

StoredKeys(file) == {EpKey(file.lines[i]) : i \in 1..Len(file.lines)}

EpDiscovered == ep.st \in {"discover", "prime", "wait", "process", "exited", "done"}

\* C31: a key is a target exactly when a season listing names it and it is
\* either absent from the store or present with a listed air_date in the
\* refresh window; no key is targeted twice; a season whose listing call
\* failed contributes no target and keeps its stored episodes.
C31_EpisodeTargeting ==
    EpDiscovered =>
        /\ \A key \in EpKeys :
              key \in Range(ep.acc.targets)
                  <=> /\ Listed(key)
                      /\ \/ key \notin StoredKeys(ep.pre)
                         \/ ListedInWindow(key)
        /\ \A a, b \in 1..Len(ep.acc.targets) :
              ep.acc.targets[a] = ep.acc.targets[b] => a = b
        /\ \A pair \in ep.failed :
              /\ \A key \in Range(ep.acc.targets) : <<key[1], key[2]>> # pair
              /\ \A i \in 1..Len(ep.pre.lines) :
                    <<ep.pre.lines[i].series_id, ep.pre.lines[i].season_number>> = pair
                        => ep.pre.lines[i] \in Range(ep.store.lines)

\* A finished run in which a stored episode with a stale stored date was
\* refreshed on the listing's date, an unstored episode without air_date was
\* added, an episode listed twice was fetched once, and the listing of a
\* season holding a stored episode had failed.
C31_Witness ==
    /\ ep.st = "done"
    /\ ep.ok >= 2
    /\ EpLine(1, 1, 1, EpStale) \in Range(ep.pre.lines)
    /\ <<1, 1, 1>> \in Range(ep.acc.targets)
    /\ <<1, 1, 2>> \in Range(ep.acc.targets)
    /\ <<1, 1, 2>> \notin StoredKeys(ep.pre)
    /\ ~ListedInWindow(<<1, 1, 2>>)
    /\ <<1, 2>> \in ep.failed
    /\ EpLine(1, 2, 1, EpStale) \in Range(ep.store.lines)

====
